---- MODULE Spec2Model ----
(***************************************************************************)
(* kongctl: the `apply` reconciliation run (internal/cli apply command)    *)
(* against a Kong Admin API, one action per remote call.                   *)
(*                                                                         *)
(* Strings are TLA+ strings; a Go slice is a sequence; a nil *bool is      *)
(* "nil", a set one is "true"/"false"; a Go map is a function.             *)
(***************************************************************************)
EXTENDS Integers, Sequences, FiniteSets, TLC

\* Bounds of the model.
MaxFaults == 1
MaxRuns == 2
MaxLen == 2

\* Resources another client of the remote creates during a run.
MaxWrites == 1

----------------------------------------------------------------------------
(* Strings and slices                                                      *)

Range(s) == {s[k] : k \in 1..Len(s)}

LowerLetters == "abcdefghijklmnopqrstuvwxyz"
UpperLetters == "ABCDEFGHIJKLMNOPQRSTUVWXYZ"

CharAt(s, k) == SubSeq(s, k, k)

RECURSIVE IndexIn(_, _, _)
IndexIn(c, s, k) ==
    IF k > Len(s) THEN 0
    ELSE IF CharAt(s, k) = c THEN k ELSE IndexIn(c, s, k + 1)

\* strings.ToUpper
RECURSIVE ToUpperStr(_)
ToUpperStr(s) ==
    LET UpperChar(c) ==
            LET k == IndexIn(c, LowerLetters, 1)
            IN  IF k = 0 THEN c ELSE CharAt(UpperLetters, k)
    IN  IF Len(s) = 0 THEN "" ELSE UpperChar(Head(s)) \o ToUpperStr(Tail(s))

\* strings.ToLower
RECURSIVE ToLowerStr(_)
ToLowerStr(s) ==
    LET LowerChar(c) ==
            LET k == IndexIn(c, UpperLetters, 1)
            IN  IF k = 0 THEN c ELSE CharAt(LowerLetters, k)
    IN  IF Len(s) = 0 THEN "" ELSE LowerChar(Head(s)) \o ToLowerStr(Tail(s))

\* strings.TrimSpace: leading and trailing white space is cut off. Of the
\* white space of Go (\t \n \v \f \r, blank, U+0085, U+00A0) the strings of
\* the model can hold \t \n \f \r and the blank.
TrimSpace(s) ==
    LET isSpace(c) == c \in {" ", "\t", "\n", "\f", "\r"}
        RECURSIVE TrimLeft(_)
        TrimLeft(x) ==
            IF Len(x) = 0 THEN ""
            ELSE IF isSpace(Head(x)) THEN TrimLeft(Tail(x)) ELSE x
        RECURSIVE TrimRight(_)
        TrimRight(x) ==
            IF Len(x) = 0 THEN ""
            ELSE IF isSpace(CharAt(x, Len(x)))
                 THEN TrimRight(SubSeq(x, 1, Len(x) - 1))
            ELSE x
    IN  TrimRight(TrimLeft(s))

\* toUpper: upper-cases every element of a slice.
\* Variant: the methods are kept as written.
toUpperKeeps(xs) == xs

toUpper(xs) == [k \in 1..Len(xs) |-> ToUpperStr(xs[k])]

\* The second loop of sliceSetEqual: consume b against the counts, then
\* require every count to be zero.
RECURSIVE Consume(_, _, _)
Consume(m, b, k) ==
    IF k > Len(b) THEN \A x \in DOMAIN m : m[x] = 0
    ELSE IF b[k] \notin DOMAIN m THEN FALSE
    ELSE IF m[b[k]] = 0 THEN FALSE
    ELSE Consume([m EXCEPT ![b[k]] = @ - 1], b, k + 1)

\* sliceSetEqual: the counting map built from a is consumed against b.
sliceSetEqual(a, b) ==
    LET CountMap == [x \in Range(a) |->
                        Cardinality({k \in 1..Len(a) : a[k] = x})]
    IN  IF Len(a) # Len(b) THEN FALSE ELSE Consume(CountMap, b, 1)

mapStringSliceEqual(a, b) ==
    IF Cardinality(DOMAIN a) # Cardinality(DOMAIN b) THEN FALSE
    ELSE \A k \in DOMAIN a : k \in DOMAIN b /\ sliceSetEqual(a[k], b[k])

\* A *bool read with the code's "false when nil" default.
PtrVal(p) == p = "true"

----------------------------------------------------------------------------
(* The desired-state document (applySpec and its parts)                    *)

Target(t, w) == [target |-> t, weight |-> w]

Backend0 == [protocol |-> "", port |-> 0, path |-> "", targets |-> <<>>]

Upstream0 == [name |-> "", targets |-> <<>>]

Service0 ==
    [name |-> "", url |-> "", upstream |-> "", protocol |-> "", port |-> 0,
     path |-> "", retries |-> 0, connect_timeout |-> 0, read_timeout |-> 0,
     write_timeout |-> 0, targets |-> <<>>]

Route0 ==
    [name |-> "", service |-> "", hosts |-> <<>>, paths |-> <<>>,
     methods |-> <<>>, strip_path |-> "nil", path_handling |-> "",
     protocols |-> <<>>, preserve_host |-> "nil", regex_priority |-> 0,
     https_redirect_status_code |-> 0, request_buffering |-> "nil",
     response_buffering |-> "nil", headers |-> <<>>, snis |-> <<>>,
     tags |-> <<>>, service_name |-> "", upstream_name |-> "",
     backend |-> Backend0]

Spec0 == [upstreams |-> <<>>, services |-> <<>>, routes |-> <<>>]

\* The file content as the YAML decoder sees it: the top-level node kind,
\* what decoding a mapping into applySpec yields (top), what decoding a
\* mapping into applyRoute yields (one), and the items of a sequence.
Raw(node, top, one, items) ==
    [node |-> node, top |-> top, one |-> one, items |-> items]

\* yaml.Unmarshal(content, &spec): fails on anything but a mapping (an empty
\* file decodes to nothing without error).
UnmarshalSpec(raw) ==
    CASE raw.node = "map"   -> [err |-> FALSE, v |-> raw.top]
      [] raw.node = "empty" -> [err |-> FALSE, v |-> Spec0]
      [] OTHER              -> [err |-> TRUE, v |-> Spec0]

\* yaml.Unmarshal(content, &routes)
UnmarshalList(raw) ==
    CASE raw.node = "seq"   -> [err |-> FALSE, v |-> raw.items]
      [] raw.node = "empty" -> [err |-> FALSE, v |-> <<>>]
      [] OTHER              -> [err |-> TRUE, v |-> <<>>]

\* yaml.Unmarshal(content, &r)
UnmarshalRoute(raw) ==
    CASE raw.node = "map"   -> [err |-> FALSE, v |-> raw.one]
      [] raw.node = "empty" -> [err |-> FALSE, v |-> Route0]
      [] OTHER              -> [err |-> TRUE, v |-> Route0]

\* The single-object test of the third shape.
RouteShaped(r) ==
    \/ r.name # ""
    \/ Len(r.paths) > 0
    \/ Len(r.hosts) > 0
    \/ Len(r.methods) > 0
    \/ r.service # ""
    \/ Len(r.backend.targets) > 0
    \/ r.backend.protocol # ""
    \/ r.backend.port # 0
    \/ r.backend.path # ""

\* Variant: a mapping with route fields is taken as a single route before
\* its sections are looked at.
NormalizeRouteFirst(raw) ==
    LET top  == UnmarshalSpec(raw)
        lst  == UnmarshalList(raw)
        one  == UnmarshalRoute(raw)
        none == /\ Len(top.v.upstreams) = 0
                /\ Len(top.v.services) = 0
                /\ Len(top.v.routes) = 0
    IN  IF ~one.err /\ RouteShaped(one.v)
        THEN [err |-> "", spec |-> [top.v EXCEPT !.routes = <<one.v>>]]
        ELSE IF ~(top.err \/ none) THEN [err |-> "", spec |-> top.v]
        ELSE IF ~lst.err /\ Len(lst.v) > 0
             THEN [err |-> "", spec |-> [top.v EXCEPT !.routes = lst.v]]
        ELSE [err |-> "ParseError", spec |-> Spec0]

\* The three accepted top-level shapes, in the code's order.
Normalize(raw) ==
    LET top  == UnmarshalSpec(raw)
        lst  == UnmarshalList(raw)
        one  == UnmarshalRoute(raw)
        none == /\ Len(top.v.upstreams) = 0
                /\ Len(top.v.services) = 0
                /\ Len(top.v.routes) = 0
    IN  IF ~(top.err \/ none) THEN [err |-> "", spec |-> top.v]
        ELSE IF ~lst.err /\ Len(lst.v) > 0
             THEN [err |-> "", spec |-> [top.v EXCEPT !.routes = lst.v]]
        ELSE IF ~one.err /\ RouteShaped(one.v)
             THEN [err |-> "", spec |-> [top.v EXCEPT !.routes = <<one.v>>]]
        ELSE [err |-> "ParseError", spec |-> Spec0]

----------------------------------------------------------------------------
(* Names and values the code derives from the document                     *)

\* Target weight used for comparison and for the add-target call.
NormWeight(w) == IF w = 0 THEN 100 ELSE w

\* Protocol and port defaults of an upstream-bound service.
DefaultProto(p) == IF p = "" THEN "http" ELSE p

DefaultPort(proto, port) ==
    IF port = 0 THEN (IF proto = "https" THEN 443 ELSE 80) ELSE port

\* nonWord.ReplaceAllString(p, "-"): every run of characters outside
\* [A-Za-z0-9] becomes one dash.
IsWordChar(c) ==
    \/ IndexIn(c, LowerLetters, 1) # 0
    \/ IndexIn(c, UpperLetters, 1) # 0
    \/ IndexIn(c, "0123456789", 1) # 0

RECURSIVE ReplaceNonWord(_, _)
ReplaceNonWord(s, inRun) ==
    IF Len(s) = 0 THEN ""
    ELSE IF IsWordChar(Head(s)) THEN Head(s) \o ReplaceNonWord(Tail(s), FALSE)
    ELSE IF inRun THEN ReplaceNonWord(Tail(s), TRUE)
    ELSE "-" \o ReplaceNonWord(Tail(s), TRUE)

RECURSIVE TrimDashLeft(_)
TrimDashLeft(s) ==
    IF Len(s) = 0 THEN ""
    ELSE IF Head(s) = "-" THEN TrimDashLeft(Tail(s)) ELSE s

RECURSIVE TrimDashRight(_)
TrimDashRight(s) ==
    IF Len(s) = 0 THEN ""
    ELSE IF CharAt(s, Len(s)) = "-"
         THEN TrimDashRight(SubSeq(s, 1, Len(s) - 1))
    ELSE s

\* strings.Join
RECURSIVE Join(_, _)
Join(xs, sep) ==
    IF Len(xs) = 0 THEN ""
    ELSE IF Len(xs) = 1 THEN xs[1]
    ELSE xs[1] \o sep \o Join(Tail(xs), sep)

\* The byte of each character the strings of the model are made of: ASCII
\* without the grave accent, which a string of the model cannot hold.
ByteOf ==
    LET From32 ==
            " !\"#$%&'()*+,-./0123456789:;<=>?@ABCDEFGHIJKLMNOPQRSTUVWXYZ"
            \o "[\\]^_"
        From97 == "abcdefghijklmnopqrstuvwxyz{|}~"
        tab(str, base) == {<<CharAt(str, k), base + k>> : k \in 1..Len(str)}
        pairs == tab(From32, 31) \cup tab(From97, 96)
                 \cup {<<"\t", 9>>, <<"\n", 10>>, <<"\f", 12>>, <<"\r", 13>>}
    IN  [c \in {p[1] : p \in pairs} |-> (CHOOSE p \in pairs : p[1] = c)[2]]

\* a < b of Go strings: byte by byte, a proper prefix first.
RECURSIVE StrLess(_, _)
StrLess(a, b) ==
    IF Len(b) = 0 THEN FALSE
    ELSE IF Len(a) = 0 THEN TRUE
    ELSE IF ByteOf[Head(a)] # ByteOf[Head(b)]
         THEN ByteOf[Head(a)] < ByteOf[Head(b)]
    ELSE StrLess(Tail(a), Tail(b))

\* x put into the sorted slice ys.
RECURSIVE InsertSorted(_, _)
InsertSorted(x, ys) ==
    IF Len(ys) = 0 THEN <<x>>
    ELSE IF StrLess(ys[1], x) THEN <<ys[1]>> \o InsertSorted(x, Tail(ys))
    ELSE <<x>> \o ys

\* sort.Strings: ascending in the byte-wise order of Go's string comparison.
RECURSIVE SortStrings(_)
SortStrings(xs) ==
    IF Len(xs) = 0 THEN <<>>
    ELSE InsertSorted(xs[1], SortStrings(Tail(xs)))

\* Variant: the methods go into the name in the order they are written.
defaultRouteNameUnsorted(service, paths, methods) ==
    LET p == TrimDashRight(TrimDashLeft(ReplaceNonWord(Join(paths, "-"), FALSE)))
        m == toUpper(methods)
        mm == IF Len(m) = 0 THEN <<"ANY">> ELSE m
    IN  service \o "-" \o p \o "-" \o Join(mm, "+")

defaultRouteName(service, paths, methods) ==
    LET p == TrimDashRight(TrimDashLeft(ReplaceNonWord(Join(paths, "-"), FALSE)))
        m == SortStrings(toUpper(methods))
        mm == IF Len(m) = 0 THEN <<"ANY">> ELSE m
    IN  service \o "-" \o p \o "-" \o Join(mm, "+")

\* The route name RunE works with: the given one, else the derived one when
\* a service is referenced ("" for a nameless shorthand route).
RouteName(r) ==
    IF r.name = "" /\ r.service # ""
    THEN defaultRouteName(r.service, r.paths, r.methods)
    ELSE r.name

\* Variant: the service name is always derived from the route name.
AutoSvcNameDerived(r) == RouteName(r) \o "-service"

AutoSvcName(r) ==
    IF r.service_name = "" THEN RouteName(r) \o "-service" ELSE r.service_name

AutoUpName(r) ==
    IF r.upstream_name = "" THEN RouteName(r) \o "-upstream" ELSE r.upstream_name

\* The service a route ends up referencing (r.Service after the shorthand
\* block rewrote it).
RouteService(r) == IF r.service = "" THEN AutoSvcName(r) ELSE r.service

\* ph := strings.ToLower(strings.TrimSpace(r.PathHandling))
PathHandlingOf(r) == ToLowerStr(TrimSpace(r.path_handling))

PathHandlingValid(ph) == ph = "" \/ ph = "v0" \/ ph = "v1"

\* kong.Route as RunE builds it.
DesiredRoute(r) ==
    [name |-> RouteName(r),
     hosts |-> r.hosts,
     paths |-> r.paths,
     methods |-> toUpper(r.methods),
     path_handling |-> PathHandlingOf(r),
     protocols |-> r.protocols,
     preserve_host |-> r.preserve_host,
     regex_priority |-> r.regex_priority,
     https_redirect_status_code |-> r.https_redirect_status_code,
     request_buffering |-> r.request_buffering,
     response_buffering |-> r.response_buffering,
     headers |-> r.headers,
     snis |-> r.snis,
     tags |-> r.tags,
     strip_path |-> IF r.strip_path # "nil" THEN r.strip_path ELSE "true",
     service |-> [id |-> "", name |-> RouteService(r)]]

----------------------------------------------------------------------------
(* The Admin API: resources as the client decodes them, and the effect of  *)
(* each request on the remote resource set                                 *)

KService0 ==
    [id |-> "", name |-> "", protocol |-> "", host |-> "", port |-> 0,
     path |-> "", retries |-> 0, connect_timeout |-> 0, read_timeout |-> 0,
     write_timeout |-> 0]

KRoute0 ==
    [name |-> "", hosts |-> <<>>, paths |-> <<>>, methods |-> <<>>,
     protocols |-> <<>>, preserve_host |-> "nil", regex_priority |-> 0,
     https_redirect_status_code |-> 0, request_buffering |-> "nil",
     response_buffering |-> "nil", headers |-> <<>>, snis |-> <<>>,
     tags |-> <<>>, path_handling |-> "", strip_path |-> "nil",
     service |-> [id |-> "", name |-> ""]]

Remote0 == [ups |-> {}, tgs |-> {}, svcs |-> <<>>, rts |-> <<>>]

\* The id the remote gives the service of a name.
SvcId(name) == "id-" \o name

RECURSIVE FindSub(_, _, _)
FindSub(s, sub, k) ==
    IF k + Len(sub) - 1 > Len(s) THEN 0
    ELSE IF SubSeq(s, k, k + Len(sub) - 1) = sub THEN k
    ELSE FindSub(s, sub, k + 1)

RECURSIVE ParseInt(_, _)
ParseInt(s, acc) ==
    IF Len(s) = 0 THEN acc
    ELSE ParseInt(Tail(s), 10 * acc + (IndexIn(Head(s), "0123456789", 1) - 1))

\* How the remote splits the url of a service payload into
\* protocol/host/port/path (see the note in CreateOrUpdateService).
ParseURL(u) ==
    LET p        == FindSub(u, "://", 1)
        scheme   == IF p = 0 THEN "" ELSE SubSeq(u, 1, p - 1)
        rest     == IF p = 0 THEN "" ELSE SubSeq(u, p + 3, Len(u))
        sl       == FindSub(rest, "/", 1)
        hostport == IF sl = 0 THEN rest ELSE SubSeq(rest, 1, sl - 1)
        path     == IF sl = 0 THEN "" ELSE SubSeq(rest, sl, Len(rest))
        c        == FindSub(hostport, ":", 1)
        host     == IF c = 0 THEN hostport ELSE SubSeq(hostport, 1, c - 1)
        port     == IF c = 0 THEN (IF scheme = "https" THEN 443 ELSE 80)
                    ELSE ParseInt(SubSeq(hostport, c + 1, Len(hostport)), 0)
    IN  [ok |-> p > 1 /\ host # "", protocol |-> scheme, host |-> host,
         port |-> port, path |-> path]

reconstructURL(s) ==
    IF s.protocol = "" \/ s.host = "" THEN ""
    ELSE LET needPort == \/ (s.protocol = "http" /\ s.port # 80)
                         \/ (s.protocol = "https" /\ s.port # 443)
             base == s.protocol \o "://" \o s.host
             withPort == IF needPort /\ s.port # 0
                         THEN base \o ":" \o ToString(s.port) ELSE base
             path == IF s.path # "" /\ Head(s.path) # "/"
                     THEN "/" \o s.path ELSE s.path
         IN  withPort \o path

\* A PATCH: the fields of the payload replace those of the stored resource.
PatchRec(rec, fields) ==
    [k \in DOMAIN rec |-> IF k \in DOMAIN fields THEN fields[k] ELSE rec[k]]

RemTargets(rem, up) == {t \in rem.tgs : t.up = up}

\* POST /upstreams
RemPostUpstream(rem, name) == [rem EXCEPT !.ups = @ \cup {name}]

\* POST /upstreams/{up}/targets: the newest record of an address is the one
\* the remote lists.
RemPostTarget(rem, up, addr, w) ==
    [rem EXCEPT !.tgs = {t \in @ : ~(t.up = up /\ t.target = addr)}
                        \cup {[up |-> up, target |-> addr, weight |-> w]}]

\* Variant: the request replaces the collection instead of adding to it.
RemPutServices(rem, payload) ==
    LET u == ParseURL(payload.url)
    IN  [rem EXCEPT !.svcs =
           (payload.name :>
              [KService0 EXCEPT !.id = SvcId(payload.name),
                 !.name = payload.name,
                 !.protocol = IF payload.url # "" THEN u.protocol
                              ELSE payload.protocol,
                 !.host = IF payload.url # "" THEN u.host ELSE payload.host,
                 !.port = IF payload.url # "" THEN u.port ELSE payload.port,
                 !.path = IF payload.url # "" THEN u.path ELSE payload.path])]

\* POST /services with Service{Name, URL} or Service{Name, Protocol, Host,
\* Port, Path}.
RemPostService(rem, payload) ==
    LET u   == ParseURL(payload.url)
        rec == IF payload.url # ""
               THEN [KService0 EXCEPT !.id = SvcId(payload.name),
                        !.name = payload.name, !.protocol = u.protocol,
                        !.host = u.host, !.port = u.port, !.path = u.path]
               ELSE [KService0 EXCEPT !.id = SvcId(payload.name),
                        !.name = payload.name, !.protocol = payload.protocol,
                        !.host = payload.host, !.port = payload.port,
                        !.path = payload.path]
    IN  [rem EXCEPT !.svcs = (payload.name :> rec) @@ @]

\* PATCH /services/{name}
RemPatchService(rem, name, fields) ==
    [rem EXCEPT !.svcs = (name :> PatchRec(rem.svcs[name], fields)) @@ @]

\* The fields a {"url": u} payload sets.
UrlFields(url) ==
    LET u == ParseURL(url)
    IN  [protocol |-> u.protocol, host |-> u.host, port |-> u.port,
         path |-> u.path]

\* The service reference of a stored route: always the id; the name only
\* when the remote echoes it.
StoredRef(rem, id, echo) ==
    LET names == {n \in DOMAIN rem.svcs : rem.svcs[n].id = id}
    IN  [id |-> id,
         name |-> IF echo /\ names # {} THEN CHOOSE n \in names : TRUE ELSE ""]

\* POST /routes
RemPostRoute(rem, desired, echo) ==
    LET rec == [k \in DOMAIN KRoute0 |->
                  IF k = "service" THEN StoredRef(rem, desired.service.id, echo)
                  ELSE desired[k]]
    IN  [rem EXCEPT !.rts = (desired.name :> rec) @@ @]

\* PATCH /routes/{name}
RemPatchRoute(rem, name, fields, echo) ==
    LET f == IF "service" \in DOMAIN fields
             THEN [k \in DOMAIN fields |->
                     IF k = "service" THEN StoredRef(rem, fields[k].id, echo)
                     ELSE fields[k]]
             ELSE fields
    IN  [rem EXCEPT !.rts = (name :> PatchRec(rem.rts[name], f)) @@ @]

----------------------------------------------------------------------------
(* Diffing a desired resource against the fetched one                      *)

Change(kind, name, action, diff) ==
    [kind |-> kind, name |-> name, action |-> action, diff |-> diff]

\* One line group of a diff text: the field, what goes and what comes.
DiffEntry(field, del, add) == [field |-> field, del |-> del, add |-> add]

RECURSIVE SetToSeq(_)
SetToSeq(S) ==
    IF S = {} THEN <<>>
    ELSE LET x == CHOOSE y \in S : TRUE IN <<x>> \o SetToSeq(S \ {x})

\* diffSlice: the sorted elements only in cur and only in want (both empty
\* is the "no change" line).
diffSlice(field, cur, want) ==
    DiffEntry(field,
              SortStrings(SetToSeq(Range(cur) \ Range(want))),
              SortStrings(SetToSeq(Range(want) \ Range(cur))))

\* The orders in which a `range` over a Go map can visit the keys S: the
\* language leaves the order open and the runtime varies it from run to run.
Orders(S) == {o \in [1..Cardinality(S) -> S] : Range(o) = S}

\* diffMapStringSlice: the lines after the field header. First a "- k" for
\* every key of cur that want lacks, in the order ocur the first loop visits
\* cur; then, in the order owant the second loop visits want, a "+ k: values"
\* for a key cur lacks and the pair "- k: values", "+ k: values" for a key
\* whose values differ.
diffMapStringSlice(field, cur, want, ocur, owant) ==
    LET gone(k) == IF k \in DOMAIN want THEN <<>> ELSE <<"- " \o k>>
        plus(k) == "+ " \o k \o ": " \o Join(want[k], ", ")
        more(k) ==
            IF k \notin DOMAIN cur THEN <<plus(k)>>
            ELSE IF ~sliceSetEqual(cur[k], want[k])
                 THEN <<"- " \o k \o ": " \o Join(cur[k], ", "), plus(k)>>
            ELSE <<>>
        RECURSIVE cat(_, _, _)
        cat(f(_), o, n) == IF n = 0 THEN <<>> ELSE cat(f, o, n - 1) \o f(o[n])
    IN  [field |-> field,
         lines |-> cat(gone, ocur, Len(ocur)) \o cat(more, owant, Len(owant))]

\* The target loop of the dry-run: none only for the same address with the
\* same weight.
PlanTargetAction(listed, list, addr, w) ==
    IF listed /\ \E t \in list : t.target = addr /\ t.weight = w
    THEN "none" ELSE "create"

\* exists/sameWeight of the execution loop.
TargetExists(list, addr) == \E t \in list : t.target = addr

TargetSameWeight(list, addr, w) ==
    \E t \in list : t.target = addr /\ (t.weight = w \/ w = 0)

\* Upstream-bound service: the `changed` of the execution branch.
ServiceUpChanged(cur, s) ==
    \/ cur.host # s.upstream
    \/ cur.protocol # s.proto
    \/ cur.port # s.port
    \/ cur.path # s.path

\* URL service: the reconstructed url differs.
ServiceUrlChanged(cur, s) == reconstructURL(cur) # s.url

ServiceChanged(cur, s) ==
    IF s.mode = "upstream" THEN ServiceUpChanged(cur, s)
    ELSE ServiceUrlChanged(cur, s)

extrasChanged(cur, s) ==
    \/ (s.retries > 0 /\ cur.retries # s.retries)
    \/ (s.connect_timeout > 0 /\ cur.connect_timeout # s.connect_timeout)
    \/ (s.read_timeout > 0 /\ cur.read_timeout # s.read_timeout)
    \/ (s.write_timeout > 0 /\ cur.write_timeout # s.write_timeout)

HasExtras(s) ==
    \/ s.retries > 0
    \/ s.connect_timeout > 0
    \/ s.read_timeout > 0
    \/ s.write_timeout > 0

\* The diff text of a service in the dry-run, as entries in the code's order.
ServiceDiff(cur, s) ==
    LET e(cond, f, old, new) ==
            IF cond THEN <<DiffEntry(f, <<old>>, <<new>>)>> ELSE <<>>
        n(x) == ToString(x)
        base ==
            IF s.mode = "upstream"
            THEN e(cur.host # s.upstream, "host", cur.host, s.upstream)
                 \o e(cur.protocol # s.proto, "protocol", cur.protocol, s.proto)
                 \o e(cur.port # s.port, "port", n(cur.port), n(s.port))
                 \o e(cur.path # s.path, "path", cur.path, s.path)
            ELSE e(reconstructURL(cur) # s.url, "url", reconstructURL(cur), s.url)
    IN  base
        \o e(s.retries > 0 /\ cur.retries # s.retries,
             "retries", n(cur.retries), n(s.retries))
        \o e(s.connect_timeout > 0 /\ cur.connect_timeout # s.connect_timeout,
             "connect_timeout", n(cur.connect_timeout), n(s.connect_timeout))
        \o e(s.read_timeout > 0 /\ cur.read_timeout # s.read_timeout,
             "read_timeout", n(cur.read_timeout), n(s.read_timeout))
        \o e(s.write_timeout > 0 /\ cur.write_timeout # s.write_timeout,
             "write_timeout", n(cur.write_timeout), n(s.write_timeout))

\* The action the dry-run gives a service that was found.
PlanServiceAction(cur, s) ==
    IF ServiceChanged(cur, s) \/ extrasChanged(cur, s) THEN "update" ELSE "none"

\* The `changed` of the route execution branch.
RouteChanged(r, desired, cur) ==
    \/ ~sliceSetEqual(cur.hosts, desired.hosts)
    \/ ~sliceSetEqual(cur.paths, desired.paths)
    \/ ~sliceSetEqual(toUpper(cur.methods), desired.methods)
    \/ (Len(r.protocols) > 0 /\ ~sliceSetEqual(cur.protocols, desired.protocols))
    \/ (ToLowerStr(desired.path_handling) # ""
        /\ ToLowerStr(cur.path_handling) # ToLowerStr(desired.path_handling))
    \/ (r.preserve_host # "nil"
        /\ PtrVal(cur.preserve_host) # PtrVal(desired.preserve_host))
    \/ (r.regex_priority # 0 /\ cur.regex_priority # desired.regex_priority)
    \/ (r.https_redirect_status_code # 0
        /\ cur.https_redirect_status_code # desired.https_redirect_status_code)
    \/ (r.request_buffering # "nil"
        /\ PtrVal(cur.request_buffering) # PtrVal(desired.request_buffering))
    \/ (r.response_buffering # "nil"
        /\ PtrVal(cur.response_buffering) # PtrVal(desired.response_buffering))
    \/ (Cardinality(DOMAIN r.headers) > 0
        /\ ~mapStringSliceEqual(cur.headers, desired.headers))
    \/ (Len(r.snis) > 0 /\ ~sliceSetEqual(cur.snis, desired.snis))
    \/ (Len(r.tags) > 0 /\ ~sliceSetEqual(cur.tags, desired.tags))
    \/ PtrVal(cur.strip_path) # PtrVal(desired.strip_path)
    \/ (cur.service.name # desired.service.name /\ desired.service.name # "")

\* The dry-run of a route that was found: one entry per branch that sets
\* changed, in the code's order. ocur and owant are the orders in which the
\* two header maps are visited.
RouteDiff(r, desired, cur, ocur, owant) ==
    LET e(cond, entry) == IF cond THEN <<entry>> ELSE <<>>
        b(p) == IF PtrVal(p) THEN "true" ELSE "false"
        n(x) == ToString(x)
        curPH == ToLowerStr(cur.path_handling)
        desPH == ToLowerStr(desired.path_handling)
    IN  e(~sliceSetEqual(cur.hosts, desired.hosts),
          diffSlice("hosts", cur.hosts, desired.hosts))
        \o e(~sliceSetEqual(cur.paths, desired.paths),
             diffSlice("paths", cur.paths, desired.paths))
        \o e(~sliceSetEqual(toUpper(cur.methods), desired.methods),
             diffSlice("methods", cur.methods, desired.methods))
        \o e(Len(r.protocols) > 0
             /\ ~sliceSetEqual(cur.protocols, desired.protocols),
             diffSlice("protocols", cur.protocols, desired.protocols))
        \o e(desPH # "" /\ curPH # desPH,
             DiffEntry("path_handling", <<curPH>>, <<desPH>>))
        \o e(r.preserve_host # "nil"
             /\ PtrVal(cur.preserve_host) # PtrVal(desired.preserve_host),
             DiffEntry("preserve_host", <<b(cur.preserve_host)>>,
                       <<b(desired.preserve_host)>>))
        \o e(r.regex_priority # 0
             /\ cur.regex_priority # desired.regex_priority,
             DiffEntry("regex_priority", <<n(cur.regex_priority)>>,
                       <<n(desired.regex_priority)>>))
        \o e(r.https_redirect_status_code # 0
             /\ cur.https_redirect_status_code
                  # desired.https_redirect_status_code,
             DiffEntry("https_redirect_status_code",
                       <<n(cur.https_redirect_status_code)>>,
                       <<n(desired.https_redirect_status_code)>>))
        \o e(r.request_buffering # "nil"
             /\ PtrVal(cur.request_buffering) # PtrVal(desired.request_buffering),
             DiffEntry("request_buffering", <<b(cur.request_buffering)>>,
                       <<b(desired.request_buffering)>>))
        \o e(r.response_buffering # "nil"
             /\ PtrVal(cur.response_buffering)
                  # PtrVal(desired.response_buffering),
             DiffEntry("response_buffering", <<b(cur.response_buffering)>>,
                       <<b(desired.response_buffering)>>))
        \o e(Cardinality(DOMAIN r.headers) > 0
             /\ ~mapStringSliceEqual(cur.headers, desired.headers),
             diffMapStringSlice("headers", cur.headers, desired.headers,
                                ocur, owant))
        \o e(Len(r.snis) > 0 /\ ~sliceSetEqual(cur.snis, desired.snis),
             diffSlice("snis", cur.snis, desired.snis))
        \o e(Len(r.tags) > 0 /\ ~sliceSetEqual(cur.tags, desired.tags),
             diffSlice("tags", cur.tags, desired.tags))
        \o e(PtrVal(cur.strip_path) # PtrVal(desired.strip_path),
             DiffEntry("strip_path", <<b(cur.strip_path)>>,
                       <<b(desired.strip_path)>>))
        \o e(cur.service.name # desired.service.name
             /\ desired.service.name # "",
             DiffEntry("service", <<cur.service.name>>,
                       <<desired.service.name>>))

\* The action of the dry-run: update when some branch set changed, which
\* does not depend on the order the header maps are visited in.
PlanRouteAction(r, desired, cur) ==
    IF \E ocur \in Orders(DOMAIN cur.headers),
          owant \in Orders(DOMAIN desired.headers) :
           Len(RouteDiff(r, desired, cur, ocur, owant)) > 0
    THEN "update" ELSE "none"

\* The payload of the PATCH in CreateOrUpdateRoute.
RoutePatchFields(desired) ==
    LET opt(cond, k, v) == IF cond THEN (k :> v) ELSE <<>>
    IN  ("hosts" :> desired.hosts) @@ ("paths" :> desired.paths)
        @@ ("methods" :> desired.methods)
        @@ opt(Len(desired.protocols) > 0, "protocols", desired.protocols)
        @@ opt(desired.preserve_host # "nil", "preserve_host",
               desired.preserve_host)
        @@ opt(desired.regex_priority # 0, "regex_priority",
               desired.regex_priority)
        @@ opt(desired.https_redirect_status_code # 0,
               "https_redirect_status_code",
               desired.https_redirect_status_code)
        @@ opt(desired.request_buffering # "nil", "request_buffering",
               desired.request_buffering)
        @@ opt(desired.response_buffering # "nil", "response_buffering",
               desired.response_buffering)
        @@ opt(Cardinality(DOMAIN desired.headers) > 0, "headers",
               desired.headers)
        @@ opt(Len(desired.snis) > 0, "snis", desired.snis)
        @@ opt(Len(desired.tags) > 0, "tags", desired.tags)
        @@ opt(desired.path_handling # "", "path_handling",
               desired.path_handling)
        @@ opt(desired.strip_path # "nil", "strip_path", desired.strip_path)
        @@ opt(desired.service.id # "", "service", desired.service)

\* The payload of UpdateServiceExtras: only the parameters above zero.
ExtrasFields(s) ==
    LET opt(cond, k, v) == IF cond THEN (k :> v) ELSE <<>>
    IN  opt(s.retries > 0, "retries", s.retries)
        @@ opt(s.connect_timeout > 0, "connect_timeout", s.connect_timeout)
        @@ opt(s.read_timeout > 0, "read_timeout", s.read_timeout)
        @@ opt(s.write_timeout > 0, "write_timeout", s.write_timeout)

----------------------------------------------------------------------------
(* Where RunE stands: the section of the document, the item, the target,   *)
(* and the remote call it is about to make                                 *)

\* The upstream an item ensures: a listed upstream, the upstream of a
\* service, or the one synthesized for a shorthand route.
CtxUpName(sp, s, k) ==
    CASE s = "ups"    -> sp.upstreams[k].name
      [] s = "svcs"   -> sp.services[k].upstream
      [] s = "routes" -> AutoUpName(sp.routes[k])

CtxTargets(sp, s, k) ==
    CASE s = "ups"    -> sp.upstreams[k].targets
      [] s = "svcs"   -> sp.services[k].targets
      [] s = "routes" -> sp.routes[k].backend.targets

\* The service an item syncs, with the defaults RunE applies. A shorthand
\* route carries no retries/timeouts.
CtxSvc(sp, s, k) ==
    IF s = "svcs"
    THEN LET d == sp.services[k]
             proto == DefaultProto(d.protocol)
         IN  [name |-> d.name,
              mode |-> IF d.upstream # "" THEN "upstream" ELSE "url",
              upstream |-> d.upstream, url |-> d.url,
              proto |-> proto, port |-> DefaultPort(proto, d.port),
              path |-> d.path, retries |-> d.retries,
              connect_timeout |-> d.connect_timeout,
              read_timeout |-> d.read_timeout,
              write_timeout |-> d.write_timeout]
    ELSE LET r == sp.routes[k]
             proto == DefaultProto(r.backend.protocol)
         IN  [name |-> AutoSvcName(r), mode |-> "upstream",
              upstream |-> AutoUpName(r), url |-> "",
              proto |-> proto, port |-> DefaultPort(proto, r.backend.port),
              path |-> r.backend.path, retries |-> 0, connect_timeout |-> 0,
              read_timeout |-> 0, write_timeout |-> 0]

At(s, k, t, label) == [sect |-> s, idx |-> k, tix |-> t, pc |-> label, err |-> ""]

Finished == [sect |-> "end", idx |-> 0, tix |-> 0, pc |-> "done", err |-> ""]

Failed(s, k, t, e) == [sect |-> s, idx |-> k, tix |-> t, pc |-> "err", err |-> e]

\* A route about to be synced: the path_handling check comes first.
EnterRouteSync(sp, k) ==
    IF ~PathHandlingValid(PathHandlingOf(sp.routes[k]))
    THEN Failed("routes", k, 0, "ValidationError")
    ELSE At("routes", k, 0, "rt_get")

\* Variant: the name of a shorthand route is not checked.
EnterRouteUnchecked(sp, k) ==
    IF k > Len(sp.routes) THEN Finished
    ELSE IF sp.routes[k].service = "" THEN At("routes", k, 0, "up_get")
    ELSE EnterRouteSync(sp, k)

\* Head of the routes loop: a shorthand route needs a name.
EnterRoute(sp, k) ==
    IF k > Len(sp.routes) THEN Finished
    ELSE IF sp.routes[k].service = ""
         THEN IF RouteName(sp.routes[k]) = ""
              THEN Failed("routes", k, 0, "ValidationError")
              ELSE At("routes", k, 0, "up_get")
    ELSE EnterRouteSync(sp, k)

\* Variant: the upstream of a service is not looked at before the service.
EnterServiceDirect(sp, k) ==
    IF k > Len(sp.services) THEN EnterRoute(sp, 1)
    ELSE IF sp.services[k].name = ""
         THEN Failed("svcs", k, 0, "ValidationError")
    ELSE IF sp.services[k].upstream = "" /\ sp.services[k].url = ""
         THEN Failed("svcs", k, 0, "ValidationError")
    ELSE At("svcs", k, 0, "svc_get")

\* Head of the services loop: a name, then an upstream or a url.
EnterService(sp, k) ==
    IF k > Len(sp.services) THEN EnterRoute(sp, 1)
    ELSE IF sp.services[k].name = ""
         THEN Failed("svcs", k, 0, "ValidationError")
    ELSE IF sp.services[k].upstream # "" THEN At("svcs", k, 0, "up_get")
    ELSE IF sp.services[k].url = ""
         THEN Failed("svcs", k, 0, "ValidationError")
    ELSE At("svcs", k, 0, "svc_get")

\* Head of the upstreams loop.
EnterUpstream(sp, k) ==
    IF k > Len(sp.upstreams) THEN EnterService(sp, 1)
    ELSE IF sp.upstreams[k].name = ""
         THEN Failed("ups", k, 0, "ValidationError")
    ELSE At("ups", k, 0, "up_get")

\* Head of a targets loop; past its end comes the next upstream, or the
\* service of the item.
EnterTarget(sp, s, k, t) ==
    IF t <= Len(CtxTargets(sp, s, k)) THEN At(s, k, t, "tg_list")
    ELSE IF s = "ups" THEN EnterUpstream(sp, k + 1)
    ELSE At(s, k, 0, "svc_get")

\* Variant: the run returns after the first route instead of going on with
\* the next one.
AfterResourceReturns(sp, s, k, t, label) ==
    LET fam == SubSeq(label, 1, 2)
    IN  CASE fam = "up" -> EnterTarget(sp, s, k, 1)
          [] fam = "tg" -> EnterTarget(sp, s, k, t + 1)
          [] fam = "sv" -> IF s = "svcs" THEN EnterService(sp, k + 1)
                           ELSE EnterRouteSync(sp, k)
          [] fam = "rt" -> Finished

\* What follows the resource the call labelled `label` belongs to.
AfterResource(sp, s, k, t, label) ==
    LET fam == SubSeq(label, 1, 2)
    IN  CASE fam = "up" -> EnterTarget(sp, s, k, 1)
          [] fam = "tg" -> EnterTarget(sp, s, k, t + 1)
          [] fam = "sv" -> IF s = "svcs" THEN EnterService(sp, k + 1)
                           ELSE EnterRouteSync(sp, k)
          [] fam = "rt" -> EnterRoute(sp, k + 1)

----------------------------------------------------------------------------
(* Decisions of RunE                                                       *)

\* `if dryRun { ... }`: the plan is built.
PlanPhase(dry) == dry

\* Variant: the execution branch is not guarded by the flag.
ExecPhaseUnguarded(dry) == TRUE

\* `if !dryRun { ... }`: the resource is executed.
ExecPhase(dry) == ~dry

\* Variant: a missing upstream is left missing.
UpstreamEnsureNever(ok, ow) == FALSE

\* Variant: the creation of a missing upstream waits for --overwrite too.
UpstreamEnsureGated(ok, ow) == ow

\* An upstream is handed to CreateOrUpdateUpstream when it is missing, or
\* when it exists and --overwrite is set.
UpstreamEnsure(ok, ow) == ~ok \/ ow

\* Variant: a weight change is applied without --overwrite.
TargetEnsureUngated(exists, same, ow) == ~exists \/ ~same

\* A target is handed to EnsureTarget when it is missing, or when its weight
\* differs and --overwrite is set.
TargetEnsure(exists, same, ow) == ~exists \/ (~same /\ ow)

\* Variant: a change is applied whether or not --overwrite is set.
OverwriteGateOpen(changed, ow) == changed

\* A change of an existing resource is applied only under --overwrite.
OverwriteGate(changed, ow) == changed /\ ow

\* A failed lookup of the execution branch ends the run. ListTargets has no
\* not-found case: a 404 (the upstream is missing) is an error like any other
\* status outside 2xx.
LookupFatal(res) == res \in {"err", "err404"}

\* Variant: the error of a create/patch/add-target is dropped.
MutationErrorDropped(res) == FALSE

\* What becomes of a create/patch/add-target: "err" when the remote rejects
\* it or the request fails before it has an effect, "lost" when the remote
\* carries it out and the client gets an error all the same, else "ok".
MutationResult(fault, rejected) ==
    IF rejected \/ fault = "refused" THEN "err"
    ELSE IF fault = "lost" THEN "lost"
    ELSE "ok"

\* A failed create/patch/add-target ends the run.
MutationFatal(res) == res \in {"err", "lost"}

Call(op, kind, name, res, site) ==
    [op |-> op, kind |-> kind, name |-> name, res |-> res, site |-> site]

Skip(kind, name, what) == [kind |-> kind, name |-> name, what |-> what]

----------------------------------------------------------------------------
(* Inputs: documents, remote resource sets                                 *)

DocTarget(w) == Target("a:80", w)

SvcUrl == [Service0 EXCEPT !.name = "s1", !.url = "http://h"]

SvcUp == [Service0 EXCEPT !.name = "s1", !.upstream = "u1", !.retries = 5]

RFull ==
    [Route0 EXCEPT !.name = "r1", !.service = "s1", !.paths = <<"/p">>,
                   !.methods = <<"get">>]

RShort ==
    [Route0 EXCEPT !.name = "r2", !.paths = <<"/q">>,
                   !.backend = [Backend0 EXCEPT !.targets = <<DocTarget(0)>>]]

\* Documents with a full top-level object: one section is varied at a time,
\* next to the full three-section documents.
ObjectDocs ==
    LET
        DocUpstreams ==
            { <<>>,
              <<[Upstream0 EXCEPT !.name = "u1"]>>,
              <<[Upstream0 EXCEPT !.name = "u1", !.targets = <<DocTarget(0)>>]>>,
              <<[Upstream0 EXCEPT !.name = "u1", !.targets = <<DocTarget(50)>>]>>,
              <<[Upstream0 EXCEPT !.name = "u1", !.targets = <<DocTarget(-5)>>]>>,
              <<Upstream0>> }
        DocServices ==
            { <<>>,
              <<SvcUrl>>,
              <<SvcUp>>,
              <<[SvcUp EXCEPT !.targets = <<DocTarget(0)>>, !.retries = 0]>>,
              <<SvcUp, [SvcUp EXCEPT !.name = "s2", !.targets = <<DocTarget(0)>>,
                                     !.retries = 0]>>,
              <<Service0>>,
              <<[Service0 EXCEPT !.name = "s1"]>> }
        DocRoutes ==
            { <<>>,
              <<RFull>>,
              <<RShort>>,
              <<[Route0 EXCEPT !.paths = <<"/q">>]>>,
              <<[RFull EXCEPT !.path_handling = "v2"]>>,
              <<[RFull EXCEPT !.name = ""]>>,
              <<[RFull EXCEPT !.service = "sX"]>>,
              <<[RFull EXCEPT !.backend.targets = <<DocTarget(0)>>]>>,
              <<[RShort EXCEPT !.service_name = "s1", !.upstream_name = "u1",
                               !.backend.protocol = "https"]>>,
              <<RShort, RFull>> }
    IN
    { Raw("map", [upstreams |-> u, services |-> s, routes |-> r], Route0, <<>>) :
        <<u, s, r>> \in
          { x \in DocUpstreams \X DocServices \X DocRoutes :
              \/ x[2] = <<>> /\ x[3] = <<>>
              \/ x[1] \in {<<>>, <<[Upstream0 EXCEPT !.name = "u1"]>>}
                 /\ x[3] = <<>>
              \/ x[1] = <<>> /\ x[2] = <<>>
              \/ x[1] = <<>> /\ x[2] = <<SvcUrl>> /\ Len(x[3]) = 1
                 /\ \/ x[3][1] = RFull
                    \/ x[3][1].name = "" /\ x[3][1].service = ""
                    \/ x[3][1].backend.targets # <<>>
                       /\ (x[3][1].service # "" \/ x[3][1].service_name # "")
              \/ x[1] = <<[Upstream0 EXCEPT !.name = "u1",
                                            !.targets = <<DocTarget(50)>>]>>
                 /\ x[2] = <<SvcUp>>
                 /\ x[3] \in {<<RFull>>, <<[RFull EXCEPT !.path_handling = "v2"]>>} } }

Docs ==
    ObjectDocs
    \cup { Raw("seq", Spec0, Route0, <<RShort>>),
           Raw("seq", Spec0, Route0, <<>>),
           Raw("map", Spec0, RFull, <<>>),
           Raw("map", [Spec0 EXCEPT !.routes = <<RFull>>],
               [Route0 EXCEPT !.name = "r2"], <<>>),
           Raw("scalar", Spec0, Route0, <<>>),
           Raw("empty", Spec0, Route0, <<>>) }

SeedTarget(w) == [up |-> "u1", target |-> "a:80", weight |-> w]

SeedSvcUrl ==
    [KService0 EXCEPT !.id = SvcId("s1"), !.name = "s1", !.protocol = "http",
                      !.host = "h", !.port = 80]

SeedSvcUp == [SeedSvcUrl EXCEPT !.host = "u1"]

SeedRoute(hosts, echo) ==
    [KRoute0 EXCEPT !.name = "r1", !.hosts = hosts, !.paths = <<"/p">>,
                    !.methods = <<"GET">>, !.strip_path = "true",
                    !.service = [id |-> SvcId("s1"),
                                 name |-> IF echo THEN "s1" ELSE ""]]

\* The remote resource sets a run may start from. A route is attached to a
\* service that exists.
Remotes(echo) ==
    { [ups |-> ut[1], tgs |-> ut[2], svcs |-> sr[1], rts |-> sr[2]] :
        ut \in { <<{}, {}>>,
                 <<{"u1"}, {}>>,
                 <<{"u1"}, {SeedTarget(100)}>>,
                 <<{"u1"}, {SeedTarget(7)}>> },
        sr \in { <<(<<>>), (<<>>)>>,
                 <<("s1" :> SeedSvcUrl), (<<>>)>>,
                 <<("s1" :> SeedSvcUrl), ("r1" :> SeedRoute(<<>>, echo))>>,
                 <<("s1" :> SeedSvcUrl),
                   ("r1" :> SeedRoute(<<"h.example">>, echo))>>,
                 <<("s1" :> SeedSvcUp), (<<>>)>>,
                 <<("s1" :> [SeedSvcUp EXCEPT !.path = "/x"]), (<<>>)>>,
                 <<("s1" :> SeedSvcUp), ("r1" :> SeedRoute(<<>>, echo))>> } }

----------------------------------------------------------------------------
(* State                                                                   *)

VARIABLES
    raw,        \* the file content
    dryRun,     \* --dry-run
    overwrite,  \* --overwrite
    echoName,   \* whether the remote returns a route's service name
    remote,     \* the remote resource set
    remoteInit, \* the remote resource set before the first run
    remoteStart, \* the remote resource set when this invocation began
    spec,       \* the normalized document
    sect, idx, tix, \* section, item and target RunE is at
    pc,         \* the remote call RunE is about to make
    todo,       \* the calls still to make for the current resource
    svcid,      \* desired.Service.ID inside CreateOrUpdateRoute
    plan,       \* plan.Items
    calls,      \* the remote calls of this run, in order
    skips,      \* the skip warnings of this run
    err,        \* the error RunE returned
    run,        \* number of the invocation
    faults,     \* failing remote calls so far
    prev,       \* how the previous invocation ended
    reference,  \* how a failure-free run from remoteInit ended
    probe       \* a function of the code under evaluation: inputs, result;
                \* else what another client of the remote has done

vars ==
    <<raw, dryRun, overwrite, echoName, remote, remoteInit, remoteStart, spec,
      sect, idx, tix, pc, todo, svcid, plan, calls, skips, err, run, faults,
      prev, reference, probe>>

inputs ==
    <<raw, overwrite, echoName, remoteInit, remoteStart, run, prev, reference,
      probe>>

NoPrev ==
    [ran |-> FALSE, dry |-> FALSE, err |-> "", created |-> {}, faults |-> 0,
     plan |-> <<>>]

NoProbe == [fn |-> "none"]

NoReference == [set |-> FALSE, ok |-> FALSE, remote |-> Remote0]

Init ==
    /\ raw \in Docs
    /\ dryRun \in BOOLEAN
    /\ overwrite \in BOOLEAN
    /\ echoName \in BOOLEAN
    /\ remote \in Remotes(echoName)
    /\ remoteInit = remote
    /\ remoteStart = remote
    /\ spec = Spec0
    /\ sect = "start" /\ idx = 0 /\ tix = 0
    /\ pc = "start"
    /\ todo = <<>>
    /\ svcid = ""
    /\ plan = <<>>
    /\ calls = <<>>
    /\ skips = <<>>
    /\ err = ""
    /\ run = 1
    /\ faults = 0
    /\ prev = NoPrev
    /\ reference = NoReference
    /\ probe = NoProbe

\* A remote call may fail in two ways: "refused", before it had any effect
\* (connection failure, error status), or "lost", after the remote carried
\* the request out (the answer does not arrive before the deadline, the
\* connection is reset, or doJSON cannot read the 2xx answer). The client
\* returns an error in both cases.
FaultSet ==
    IF faults < MaxFaults THEN {"none", "refused", "lost"} ELSE {"none"}

Step(p, td) ==
    /\ sect' = p.sect /\ idx' = p.idx /\ tix' = p.tix
    /\ pc' = p.pc
    /\ err' = p.err
    /\ todo' = td

Abort(e) == Step(Failed(sect, idx, tix, e), <<>>)

Goto(label, td) == Step(At(sect, idx, tix, label), td)

\* On to the next pending call of the resource, else to the next resource.
Proceed(td) ==
    IF td # <<>> THEN Goto(Head(td), Tail(td))
    ELSE Step(AfterResource(spec, sect, idx, tix, pc), <<>>)

\* Reading and normalizing the file.
Start ==
    /\ pc = "start"
    /\ LET n == Normalize(raw)
       IN  IF n.err # ""
           THEN /\ spec' = spec
                /\ Step(Failed("start", 0, 0, n.err), <<>>)
           ELSE /\ spec' = n.spec
                /\ Step(EnterUpstream(n.spec, 1), <<>>)
    /\ UNCHANGED <<inputs, dryRun, remote, svcid, plan, calls, skips, faults>>

----------------------------------------------------------------------------
(* Upstreams and targets                                                   *)

\* GetUpstream of RunE: the dry-run plans from it, the execution decides
\* whether CreateOrUpdateUpstream is called.
UpGet ==
    /\ pc = "up_get"
    /\ \E fault \in FaultSet :
         LET name == CtxUpName(spec, sect, idx)
             res  == IF fault # "none" THEN "err"
                     ELSE IF name \in remote.ups THEN "ok" ELSE "absent"
         IN  /\ calls' = Append(calls, Call("get", "Upstream", name, res, "run"))
             /\ faults' = faults + (IF fault # "none" THEN 1 ELSE 0)
             /\ plan' = IF PlanPhase(dryRun)
                        THEN Append(plan, Change("Upstream", name,
                                 IF res = "ok" THEN "none" ELSE "create", <<>>))
                        ELSE plan
             /\ IF ExecPhase(dryRun)
                THEN IF LookupFatal(res) THEN Abort("FetchError")
                     ELSE IF UpstreamEnsure(res = "ok", overwrite)
                          THEN Goto("up_cou_get", <<>>)
                     ELSE Proceed(<<>>)
                ELSE Proceed(<<>>)
    /\ UNCHANGED <<inputs, dryRun, remote, spec, svcid, skips>>

\* Variant: the upstream is posted whether or not the lookup found it.
CreateOrUpdateUpstreamPost(ok) == "create"

\* What CreateOrUpdateUpstream does after its lookup: "create", with a POST,
\* when the upstream is missing; "update", with no call at all, when it is
\* there.
CreateOrUpdateUpstream(ok) == IF ok THEN "update" ELSE "create"

\* GetUpstream inside CreateOrUpdateUpstream.
UpCouGet ==
    /\ pc = "up_cou_get"
    /\ \E fault \in FaultSet :
         LET name == CtxUpName(spec, sect, idx)
             res  == IF fault # "none" THEN "err"
                     ELSE IF name \in remote.ups THEN "ok" ELSE "absent"
         IN  /\ calls' = Append(calls, Call("get", "Upstream", name, res, "client"))
             /\ faults' = faults + (IF fault # "none" THEN 1 ELSE 0)
             /\ IF LookupFatal(res) THEN Abort("FetchError")
                ELSE IF CreateOrUpdateUpstream(res = "ok") = "create"
                     THEN Goto("up_post", todo)
                ELSE Proceed(todo)
    /\ UNCHANGED <<inputs, dryRun, remote, spec, svcid, plan, skips>>

\* POST /upstreams inside CreateOrUpdateUpstream.
UpPost ==
    /\ pc = "up_post"
    /\ \E fault \in FaultSet :
         LET name == CtxUpName(spec, sect, idx)
             res  == MutationResult(fault, name \in remote.ups)
         IN  /\ calls' = Append(calls, Call("post", "Upstream", name, res, "client"))
             /\ faults' = faults + (IF fault # "none" THEN 1 ELSE 0)
             /\ remote' = IF res \in {"ok", "lost"} THEN RemPostUpstream(remote, name)
                          ELSE remote
             /\ IF MutationFatal(res) THEN Abort("TransportError")
                ELSE Proceed(todo)
    /\ UNCHANGED <<inputs, dryRun, spec, svcid, plan, skips>>

TargetCallName(up, addr) == up \o "/" \o addr

\* What ListTargets answers about an address: a failure, a 404 for a missing
\* upstream, or the list with or without the address.
ListResult(fault, upExists, exists) ==
    IF fault # "none" THEN "err"
    ELSE IF ~upExists THEN "err404"
    ELSE IF exists THEN "ok" ELSE "absent"

\* ListTargets of RunE for one desired target.
TgList ==
    /\ pc = "tg_list"
    /\ \E fault \in FaultSet :
         LET up     == CtxUpName(spec, sect, idx)
             t      == CtxTargets(spec, sect, idx)[tix]
             w      == NormWeight(t.weight)
             list   == RemTargets(remote, up)
             exists == TargetExists(list, t.target)
             same   == TargetSameWeight(list, t.target, w)
             res    == ListResult(fault, up \in remote.ups, exists)
             listed == ~LookupFatal(res)
             name   == TargetCallName(up, t.target)
         IN  /\ calls' = Append(calls, Call("list", "Target", name, res, "run"))
             /\ faults' = faults + (IF fault # "none" THEN 1 ELSE 0)
             /\ plan' = IF PlanPhase(dryRun)
                        THEN Append(plan, Change("Target", name,
                                 PlanTargetAction(listed, list, t.target, w), <<>>))
                        ELSE plan
             /\ skips' = IF ExecPhase(dryRun) /\ ~LookupFatal(res) /\ exists
                            /\ ~same /\ ~TargetEnsure(exists, same, overwrite)
                         THEN Append(skips, Skip("Target", name, "weight"))
                         ELSE skips
             /\ IF ExecPhase(dryRun)
                THEN IF LookupFatal(res) THEN Abort("FetchError")
                     ELSE IF TargetEnsure(exists, same, overwrite)
                          THEN Goto("tg_ens_list", <<>>)
                     ELSE Proceed(<<>>)
                ELSE Proceed(<<>>)
    /\ UNCHANGED <<inputs, dryRun, remote, spec, svcid>>

\* ListTargets inside EnsureTarget.
TgEnsList ==
    /\ pc = "tg_ens_list"
    /\ \E fault \in FaultSet :
         LET up     == CtxUpName(spec, sect, idx)
             t      == CtxTargets(spec, sect, idx)[tix]
             w      == NormWeight(t.weight)
             list   == RemTargets(remote, up)
             same   == TargetSameWeight(list, t.target, w)
             res    == ListResult(fault, up \in remote.ups,
                                  TargetExists(list, t.target))
         IN  /\ calls' = Append(calls, Call("list", "Target",
                                  TargetCallName(up, t.target), res, "client"))
             /\ faults' = faults + (IF fault # "none" THEN 1 ELSE 0)
             /\ IF LookupFatal(res) THEN Abort("FetchError")
                ELSE IF same THEN Proceed(todo)
                ELSE Goto("tg_post", todo)
    /\ UNCHANGED <<inputs, dryRun, remote, spec, svcid, plan, skips>>

\* AddTarget: refuses an empty upstream or address, else
\* POST /upstreams/{up}/targets.
TgPost ==
    /\ pc = "tg_post"
    /\ LET up == CtxUpName(spec, sect, idx)
           t  == CtxTargets(spec, sect, idx)[tix]
           w  == NormWeight(t.weight)
       IN  IF up = "" \/ t.target = ""
           THEN /\ Abort("ValidationError")
                /\ UNCHANGED <<calls, faults, remote>>
           ELSE \E fault \in FaultSet :
                  LET res == MutationResult(fault, up \notin remote.ups)
                  IN  /\ calls' = Append(calls, Call("post", "Target",
                                      TargetCallName(up, t.target), res, "client"))
                      /\ faults' = faults + (IF fault # "none" THEN 1 ELSE 0)
                      /\ remote' = IF res \in {"ok", "lost"}
                                   THEN RemPostTarget(remote, up, t.target, w)
                                   ELSE remote
                      /\ IF MutationFatal(res) THEN Abort("TransportError")
                         ELSE Proceed(todo)
    /\ UNCHANGED <<inputs, dryRun, spec, svcid, plan, skips>>

----------------------------------------------------------------------------
(* Services                                                                *)

\* The body of POST /services for the service of the item.
ServicePayload(s) ==
    IF s.mode = "url"
    THEN [name |-> s.name, url |-> s.url, protocol |-> "", host |-> "",
          port |-> 0, path |-> ""]
    ELSE [name |-> s.name, url |-> "", protocol |-> s.proto,
          host |-> s.upstream, port |-> s.port, path |-> s.path]

\* The body of the PATCH in CreateOrUpdateService[ViaUpstream].
ServicePatchFields(s) ==
    IF s.mode = "url" THEN UrlFields(s.url)
    ELSE [protocol |-> s.proto, host |-> s.upstream, port |-> s.port,
          path |-> s.path]

\* The calls RunE makes for a service it found: the config under
\* --overwrite when it changed, then the extras under --overwrite when they
\* changed.
ServiceCalls(cur, s, ow) ==
    (IF OverwriteGate(ServiceChanged(cur, s), ow) THEN <<"svc_cou_get">> ELSE <<>>)
    \o (IF OverwriteGate(extrasChanged(cur, s), ow) THEN <<"svc_extras">> ELSE <<>>)

\* Variant: one warning per service, whichever of the two groups changed.
ServiceSkipsOnce(cur, s, ow) ==
    IF (ServiceChanged(cur, s) \/ extrasChanged(cur, s)) /\ ~ow
    THEN <<Skip("Service", s.name, "config")>> ELSE <<>>

\* The warnings RunE prints for a service it found and leaves alone.
ServiceSkips(cur, s, ow) ==
    (IF ServiceChanged(cur, s) /\ ~ow
     THEN <<Skip("Service", s.name, "config")>> ELSE <<>>)
    \o (IF extrasChanged(cur, s) /\ ~ow
        THEN <<Skip("Service", s.name, "extras")>> ELSE <<>>)

\* GetService of RunE.
SvcGet ==
    /\ pc = "svc_get"
    /\ \E fault \in FaultSet :
         LET s     == CtxSvc(spec, sect, idx)
             found == s.name \in DOMAIN remote.svcs
             res   == IF fault # "none" THEN "err" ELSE IF found THEN "ok" ELSE "absent"
             cur   == remote.svcs[s.name]
         IN  /\ calls' = Append(calls, Call("get", "Service", s.name, res, "run"))
             /\ faults' = faults + (IF fault # "none" THEN 1 ELSE 0)
             /\ plan' = IF PlanPhase(dryRun)
                        THEN Append(plan,
                               IF res = "ok"
                               THEN Change("Service", s.name,
                                           PlanServiceAction(cur, s),
                                           ServiceDiff(cur, s))
                               ELSE Change("Service", s.name, "create", <<>>))
                        ELSE plan
             /\ skips' = IF ExecPhase(dryRun) /\ res = "ok"
                         THEN skips \o ServiceSkips(cur, s, overwrite)
                         ELSE skips
             /\ IF ExecPhase(dryRun)
                THEN IF LookupFatal(res) THEN Abort("FetchError")
                     ELSE IF res = "absent"
                          THEN Goto("svc_cou_get",
                                    IF HasExtras(s) THEN <<"svc_extras">>
                                    ELSE <<>>)
                     ELSE Proceed(ServiceCalls(cur, s, overwrite))
                ELSE Proceed(<<>>)
    /\ UNCHANGED <<inputs, dryRun, remote, spec, svcid>>

\* GetService inside CreateOrUpdateService[ViaUpstream].
SvcCouGet ==
    /\ pc = "svc_cou_get"
    /\ \E fault \in FaultSet :
         LET s   == CtxSvc(spec, sect, idx)
             res == IF fault # "none" THEN "err"
                    ELSE IF s.name \in DOMAIN remote.svcs THEN "ok" ELSE "absent"
         IN  /\ calls' = Append(calls, Call("get", "Service", s.name, res, "client"))
             /\ faults' = faults + (IF fault # "none" THEN 1 ELSE 0)
             /\ IF LookupFatal(res) THEN Abort("FetchError")
                ELSE IF res = "absent" THEN Goto("svc_post", todo)
                ELSE Goto("svc_patch", todo)
    /\ UNCHANGED <<inputs, dryRun, remote, spec, svcid, plan, skips>>

\* POST /services
SvcPost ==
    /\ pc = "svc_post"
    /\ \E fault \in FaultSet :
         LET s   == CtxSvc(spec, sect, idx)
             bad == \/ s.name \in DOMAIN remote.svcs
                    \/ (s.mode = "url" /\ ~ParseURL(s.url).ok)
             res == MutationResult(fault, bad)
         IN  /\ calls' = Append(calls, Call("post", "Service", s.name, res, "client"))
             /\ faults' = faults + (IF fault # "none" THEN 1 ELSE 0)
             /\ remote' = IF res \in {"ok", "lost"}
                          THEN RemPostService(remote, ServicePayload(s))
                          ELSE remote
             /\ IF MutationFatal(res) THEN Abort("TransportError")
                ELSE Proceed(todo)
    /\ UNCHANGED <<inputs, dryRun, spec, svcid, plan, skips>>

\* PATCH /services/{name} with the configuration.
SvcPatch ==
    /\ pc = "svc_patch"
    /\ \E fault \in FaultSet :
         LET s   == CtxSvc(spec, sect, idx)
             bad == \/ s.name \notin DOMAIN remote.svcs
                    \/ (s.mode = "url" /\ ~ParseURL(s.url).ok)
             res == MutationResult(fault, bad)
         IN  /\ calls' = Append(calls, Call("patch", "Service", s.name, res, "client"))
             /\ faults' = faults + (IF fault # "none" THEN 1 ELSE 0)
             /\ remote' = IF res \in {"ok", "lost"}
                          THEN RemPatchService(remote, s.name, ServicePatchFields(s))
                          ELSE remote
             /\ IF MutationFatal(res) THEN Abort("TransportError")
                ELSE Proceed(todo)
    /\ UNCHANGED <<inputs, dryRun, spec, svcid, plan, skips>>

\* UpdateServiceExtras: PATCH /services/{name} with the parameters above
\* zero; an empty payload is not sent.
SvcExtras ==
    /\ pc = "svc_extras"
    /\ LET s == CtxSvc(spec, sect, idx)
       IN  IF DOMAIN ExtrasFields(s) = {}
           THEN /\ Proceed(todo)
                /\ UNCHANGED <<calls, faults, remote>>
           ELSE \E fault \in FaultSet :
                  LET res == MutationResult(fault, s.name \notin DOMAIN remote.svcs)
                  IN  /\ calls' = Append(calls, Call("patch", "Service", s.name,
                                                     res, "extras"))
                      /\ faults' = faults + (IF fault # "none" THEN 1 ELSE 0)
                      /\ remote' = IF res \in {"ok", "lost"}
                                   THEN RemPatchService(remote, s.name,
                                                        ExtrasFields(s))
                                   ELSE remote
                      /\ IF MutationFatal(res) THEN Abort("TransportError")
                         ELSE Proceed(todo)
    /\ UNCHANGED <<inputs, dryRun, spec, svcid, plan, skips>>

----------------------------------------------------------------------------
(* Routes                                                                  *)

\* desired after CreateOrUpdateRoute resolved the service name to an id.
ResolvedRoute(r, id) == [DesiredRoute(r) EXCEPT !.service.id = id]

\* GetRoute of RunE.
RtGet ==
    /\ pc = "rt_get"
    /\ \E fault \in FaultSet :
         LET r       == spec.routes[idx]
             desired == DesiredRoute(r)
             name    == desired.name
             found   == name \in DOMAIN remote.rts
             res     == IF fault # "none" THEN "err" ELSE IF found THEN "ok" ELSE "absent"
             cur     == remote.rts[name]
         IN  /\ calls' = Append(calls, Call("get", "Route", name, res, "run"))
             /\ faults' = faults + (IF fault # "none" THEN 1 ELSE 0)
             /\ IF PlanPhase(dryRun) /\ res = "ok"
                THEN \E ocur \in Orders(DOMAIN cur.headers),
                        owant \in Orders(DOMAIN desired.headers) :
                         plan' = Append(plan,
                                   Change("Route", name,
                                          PlanRouteAction(r, desired, cur),
                                          RouteDiff(r, desired, cur, ocur, owant)))
                ELSE IF PlanPhase(dryRun)
                     THEN plan' = Append(plan, Change("Route", name, "create", <<>>))
                ELSE plan' = plan
             /\ skips' = IF ExecPhase(dryRun) /\ res = "ok"
                            /\ RouteChanged(r, desired, cur) /\ ~overwrite
                         THEN Append(skips, Skip("Route", name, "config"))
                         ELSE skips
             /\ IF ExecPhase(dryRun)
                THEN IF LookupFatal(res) THEN Abort("FetchError")
                     ELSE IF res = "absent" THEN Goto("rt_cou_svc", <<>>)
                     ELSE IF OverwriteGate(RouteChanged(r, desired, cur), overwrite)
                          THEN Goto("rt_cou_svc", <<>>)
                     ELSE Proceed(<<>>)
                ELSE Proceed(<<>>)
    /\ UNCHANGED <<inputs, dryRun, remote, spec, svcid>>

\* CreateOrUpdateRoute: the service name is resolved to an id; a service
\* that does not exist is an error.
RtCouSvc ==
    /\ pc = "rt_cou_svc"
    /\ \E fault \in FaultSet :
         LET desired == DesiredRoute(spec.routes[idx])
             svc     == desired.service.name
             res     == IF fault # "none" THEN "err"
                        ELSE IF svc \in DOMAIN remote.svcs THEN "ok" ELSE "absent"
         IN  /\ calls' = Append(calls, Call("get", "Service", svc, res, "route"))
             /\ faults' = faults + (IF fault # "none" THEN 1 ELSE 0)
             /\ svcid' = IF res = "ok" THEN remote.svcs[svc].id ELSE svcid
             /\ IF LookupFatal(res) THEN Abort("FetchError")
                ELSE IF res = "absent" THEN Abort("DependencyError")
                ELSE Goto("rt_cou_get", todo)
    /\ UNCHANGED <<inputs, dryRun, remote, spec, plan, skips>>

\* GetRoute inside CreateOrUpdateRoute.
RtCouGet ==
    /\ pc = "rt_cou_get"
    /\ \E fault \in FaultSet :
         LET name == DesiredRoute(spec.routes[idx]).name
             res  == IF fault # "none" THEN "err"
                     ELSE IF name \in DOMAIN remote.rts THEN "ok" ELSE "absent"
         IN  /\ calls' = Append(calls, Call("get", "Route", name, res, "client"))
             /\ faults' = faults + (IF fault # "none" THEN 1 ELSE 0)
             /\ IF LookupFatal(res) THEN Abort("FetchError")
                ELSE IF res = "absent" THEN Goto("rt_post", todo)
                ELSE Goto("rt_patch", todo)
    /\ UNCHANGED <<inputs, dryRun, remote, spec, svcid, plan, skips>>

\* POST /routes
RtPost ==
    /\ pc = "rt_post"
    /\ \E fault \in FaultSet :
         LET desired == ResolvedRoute(spec.routes[idx], svcid)
             res     == MutationResult(fault, desired.name \in DOMAIN remote.rts)
         IN  /\ calls' = Append(calls, Call("post", "Route", desired.name, res,
                                            "client"))
             /\ faults' = faults + (IF fault # "none" THEN 1 ELSE 0)
             /\ remote' = IF res \in {"ok", "lost"}
                          THEN RemPostRoute(remote, desired, echoName)
                          ELSE remote
             /\ IF MutationFatal(res) THEN Abort("TransportError")
                ELSE Proceed(todo)
    /\ svcid' = ""
    /\ UNCHANGED <<inputs, dryRun, spec, plan, skips>>

\* PATCH /routes/{name}
RtPatch ==
    /\ pc = "rt_patch"
    /\ \E fault \in FaultSet :
         LET desired == ResolvedRoute(spec.routes[idx], svcid)
             res     == MutationResult(fault, desired.name \notin DOMAIN remote.rts)
         IN  /\ calls' = Append(calls, Call("patch", "Route", desired.name, res,
                                            "client"))
             /\ faults' = faults + (IF fault # "none" THEN 1 ELSE 0)
             /\ remote' = IF res \in {"ok", "lost"}
                          THEN RemPatchRoute(remote, desired.name,
                                             RoutePatchFields(desired), echoName)
                          ELSE remote
             /\ IF MutationFatal(res) THEN Abort("TransportError")
                ELSE Proceed(todo)
    /\ svcid' = ""
    /\ UNCHANGED <<inputs, dryRun, spec, plan, skips>>

----------------------------------------------------------------------------
(* Invocations                                                             *)

Mutating(c) == c.op \in {"post", "patch"}

\* The resources a run created.
Created(cs) ==
    { <<cs[n].kind, cs[n].name>> :
        n \in {m \in DOMAIN cs : /\ cs[m].op = "post"
                                  /\ cs[m].res \in {"ok", "lost"}} }

----------------------------------------------------------------------------
(* Rendering the plan of a dry-run                                          *)

\* The resource lines printHierPlan prints, in order, as kind, name and
\* action: declared upstreams and services with their targets, routes with
\* the service, upstream and targets a shorthand route brought along. With
\* compact, an unchanged entry without diff and without targets and every
\* unchanged target are left out.
HierLines(items, sp, compact) ==
    LET Line(kind, name, action) ==
            [kind |-> kind, name |-> name, action |-> action]
        At1(kind, name) ==
            {n \in DOMAIN items : items[n].kind = kind /\ items[n].name = name}
        First(S) == CHOOSE n \in S : \A m \in S : n <= m
        found(kind, name) == At1(kind, name) # {}
        find(kind, name) == items[First(At1(kind, name))]
        act(kind, name) ==
            IF found(kind, name) /\ find(kind, name).action # ""
            THEN find(kind, name).action ELSE "none"
        nodiff(kind, name) ==
            ~found(kind, name) \/ find(kind, name).diff = <<>>
        tact(up, addr) ==
            LET S == {n \in At1("Target", TargetCallName(up, addr)) :
                          items[n].action # ""}
            IN  IF S = {} THEN "none" ELSE items[First(S)].action
        tlines(up, ts) ==
            SelectSeq([k \in 1..Len(ts) |->
                          Line("Target", ts[k].target, tact(up, ts[k].target))],
                      LAMBDA l : ~(compact /\ l.action = "none"))
        upline(u) ==
            IF compact /\ act("Upstream", u.name) = "none" /\ Len(u.targets) = 0
            THEN <<>>
            ELSE <<Line("Upstream", u.name, act("Upstream", u.name))>>
                 \o tlines(u.name, u.targets)
        svcline(v) ==
            IF compact /\ act("Service", v.name) = "none"
               /\ nodiff("Service", v.name) /\ Len(v.targets) = 0
            THEN <<>>
            ELSE <<Line("Service", v.name, act("Service", v.name))>>
                 \o (IF v.upstream # "" /\ Len(v.targets) > 0
                     THEN tlines(v.upstream, v.targets) ELSE <<>>)
        \* autoInfos holds one entry per shorthand route, in document
        \* order; the entry of a route is looked up by the route's name and
        \* the first entry of that name is taken.
        ai(r) ==
            LET S == {j \in DOMAIN sp.routes :
                        /\ sp.routes[j].service = ""
                        /\ RouteName(sp.routes[j]) = RouteName(r)}
            IN  sp.routes[First(S)]
        shown(kind, name) ==
            IF found(kind, name) THEN find(kind, name).action ELSE "none"
        nested(r) ==
            IF r.service # "" THEN <<>>
            ELSE LET svcName == AutoSvcName(ai(r))
                     upName  == AutoUpName(ai(r))
                 IN  <<Line("Service", svcName, shown("Service", svcName)),
                       Line("Upstream", upName, shown("Upstream", upName))>>
                     \o tlines(upName, r.backend.targets)
        rtline(r) ==
            IF RouteName(r) = "" THEN <<>>
            ELSE IF compact /\ act("Route", RouteName(r)) = "none"
                    /\ nodiff("Route", RouteName(r))
                    /\ Len(r.backend.targets) = 0
            THEN <<>>
            ELSE <<Line("Route", RouteName(r), act("Route", RouteName(r)))>>
                 \o nested(r)
        RECURSIVE cat(_, _)
        cat(f, n) == IF n = 0 THEN <<>> ELSE cat(f, n - 1) \o f[n]
    IN  cat([k \in DOMAIN sp.upstreams |-> upline(sp.upstreams[k])],
            Len(sp.upstreams))
        \o cat([k \in DOMAIN sp.services |-> svcline(sp.services[k])],
               Len(sp.services))
        \o cat([k \in DOMAIN sp.routes |-> rtline(sp.routes[k])],
               Len(sp.routes))

\* The closing summary: per kind, how many entries are created, updated
\* and unchanged (any action but create and update counts as unchanged).
Recount(items) ==
    [kind \in {"Upstream", "Service", "Route", "Target"} |->
        LET of(A) == Cardinality({n \in DOMAIN items :
                         items[n].kind = kind /\ items[n].action \in A})
            all == {items[n].action : n \in DOMAIN items}
        IN  [create |-> of({"create"}), update |-> of({"update"}),
             none |-> of(all \ {"create", "update"})]]

\* Variant: the summary counts the lines that were printed.
printHierPlanOfLines(items, sp, compact) ==
    [compact |-> compact,
     lines |-> HierLines(items, sp, compact),
     summary |-> Recount(HierLines(items, sp, compact))]

\* printHierPlan: the lines, then the summary counted again from plan.Items.
printHierPlan(items, sp, compact) ==
    [compact |-> compact,
     lines |-> HierLines(items, sp, compact),
     summary |-> Recount(items)]

\* A dry-run that got through all resources prints its plan, with or
\* without --compact.
Render ==
    /\ dryRun /\ pc = "done"
    /\ probe = NoProbe
    /\ \E compact \in BOOLEAN :
         probe' = [fn |-> "printHierPlan", items |-> plan,
                   out |-> printHierPlan(plan, spec, compact)]
    /\ UNCHANGED <<raw, dryRun, overwrite, echoName, remote, remoteInit,
                   remoteStart, spec, sect, idx, tix, pc, todo, svcid, plan,
                   calls, skips, err, run, faults, prev, reference>>

\* The command is invoked again on the same file, against the remote as the
\* finished invocation left it: an apply, or a dry-run after an apply (a
\* dry-run after a dry-run repeats it).
Rerun ==
    /\ pc \in {"done", "err"}
    /\ (dryRun /\ pc = "done") => probe # NoProbe
    /\ run < MaxRuns
    /\ run' = run + 1
    /\ prev' = [ran |-> TRUE, dry |-> dryRun, err |-> err,
                created |-> Created(calls), faults |-> faults,
                plan |-> plan]
    /\ dryRun' \in (IF dryRun THEN {FALSE} ELSE BOOLEAN)
    /\ spec' = Spec0
    /\ Step(At("start", 0, 0, "start"), <<>>)
    /\ svcid' = ""
    /\ plan' = <<>>
    /\ calls' = <<>>
    /\ skips' = <<>>
    /\ remoteStart' = remote
    /\ probe' = NoProbe
    /\ UNCHANGED <<raw, overwrite, echoName, remote, remoteInit, faults,
                   reference>>

Next ==
    \/ Start
    \/ UpGet \/ UpCouGet \/ UpPost
    \/ TgList \/ TgEnsList \/ TgPost
    \/ SvcGet \/ SvcCouGet \/ SvcPost \/ SvcPatch \/ SvcExtras
    \/ RtGet \/ RtCouSvc \/ RtCouGet \/ RtPost \/ RtPatch
    \/ Render
    \/ Rerun

Spec == Init /\ [][Next]_vars

----------------------------------------------------------------------------
(* Recovery by re-run: the same document applied to the same remote twice, *)
(* once without any failure, once with a failing call and a second         *)
(* invocation                                                              *)

\* An apply whose remote calls all succeed comes first.
InitRecovery ==
    /\ raw \in Docs
    /\ dryRun = FALSE
    /\ overwrite \in BOOLEAN
    /\ echoName \in BOOLEAN
    /\ remote \in Remotes(echoName)
    /\ remoteInit = remote
    /\ remoteStart = remote
    /\ spec = Spec0
    /\ sect = "start" /\ idx = 0 /\ tix = 0
    /\ pc = "start"
    /\ todo = <<>>
    /\ svcid = ""
    /\ plan = <<>>
    /\ calls = <<>>
    /\ skips = <<>>
    /\ err = ""
    /\ run = 1
    /\ faults = MaxFaults
    /\ prev = NoPrev
    /\ reference = NoReference
    /\ probe = NoProbe

\* The failure-free run is over: its outcome is kept, and the command is
\* invoked on the original remote resource set, where calls may fail.
Restore ==
    /\ pc \in {"done", "err"}
    /\ ~reference.set
    /\ reference' = [set |-> TRUE, ok |-> pc = "done", remote |-> remote]
    /\ remote' = remoteInit
    /\ remoteStart' = remoteInit
    /\ faults' = 0
    /\ spec' = Spec0
    /\ Step(At("start", 0, 0, "start"), <<>>)
    /\ svcid' = ""
    /\ plan' = <<>>
    /\ calls' = <<>>
    /\ skips' = <<>>
    /\ UNCHANGED <<raw, dryRun, overwrite, echoName, remoteInit, run, prev,
                   probe>>

\* The aborted apply is run again.
Retry ==
    /\ reference.set
    /\ pc = "err"
    /\ Rerun
    /\ dryRun' = FALSE

NextRecovery ==
    \/ Start
    \/ UpGet \/ UpCouGet \/ UpPost
    \/ TgList \/ TgEnsList \/ TgPost
    \/ SvcGet \/ SvcCouGet \/ SvcPost \/ SvcPatch \/ SvcExtras
    \/ RtGet \/ RtCouSvc \/ RtCouGet \/ RtPost \/ RtPatch
    \/ Restore
    \/ Retry

SpecRecovery == InitRecovery /\ [][NextRecovery]_vars

----------------------------------------------------------------------------
(* The comparison functions, evaluated on their own                        *)

applyVars ==
    <<raw, dryRun, overwrite, echoName, remote, remoteInit, remoteStart, spec,
      sect, idx, tix, pc, todo, svcid, plan, calls, skips, err, run, faults,
      prev, reference>>

\* No apply is running.
NoApply ==
    /\ raw = Raw("empty", Spec0, Route0, <<>>)
    /\ dryRun = FALSE
    /\ overwrite = FALSE
    /\ echoName = FALSE
    /\ remote = Remote0
    /\ remoteInit = Remote0
    /\ remoteStart = Remote0
    /\ spec = Spec0
    /\ sect = "none" /\ idx = 0 /\ tix = 0
    /\ pc = "none"
    /\ todo = <<>>
    /\ svcid = ""
    /\ plan = <<>>
    /\ calls = <<>>
    /\ skips = <<>>
    /\ err = ""
    /\ run = 0
    /\ faults = 0
    /\ prev = NoPrev
    /\ reference = NoReference

\* String slices of up to n elements.
RECURSIVE SlicesOver(_, _)
SlicesOver(E, n) ==
    IF n = 0 THEN {<<>>}
    ELSE SlicesOver(E, n - 1)
         \cup {Append(x, e) : x \in {y \in SlicesOver(E, n - 1) : Len(y) = n - 1},
                              e \in E}

Slices == SlicesOver({"get", "GET", "post"}, MaxLen)

InitCompare ==
    /\ NoApply
    /\ probe \in {[fn |-> "args", a |-> a, b |-> b] : a \in Slices, b \in Slices}

EvalSliceSetEqual ==
    /\ probe.fn = "args"
    /\ probe' = [fn |-> "sliceSetEqual", a |-> probe.a, b |-> probe.b,
                 out |-> sliceSetEqual(probe.a, probe.b)]
    /\ UNCHANGED applyVars

\* The methods of a route that exists (part of RunE's route comparison): a
\* is cur.Methods, which Kong holds in upper case, b is r.Methods.
EvalMethods ==
    /\ probe.fn = "args"
    /\ probe.a = [k \in DOMAIN probe.a |-> ToUpperStr(probe.a[k])]
    /\ LET desired == toUpper(probe.b)
       IN  probe' = [fn |-> "methods", a |-> probe.a, b |-> probe.b,
                     changed |-> ~sliceSetEqual(toUpper(probe.a), desired),
                     out |-> diffSlice("methods", probe.a, desired)]
    /\ UNCHANGED applyVars

\* Header maps built from the slices: one key each, the remote one with a
\* second key or without; the comparison, and the diff text for one of the
\* orders in which the maps can be visited.
EvalMapStringSliceEqual ==
    /\ probe.fn = "args"
    /\ \E ka \in {"x", "y"}, kb \in {"x", "y"}, more \in BOOLEAN :
         LET cur  == IF more THEN (ka :> probe.a) @@ ("z" :> probe.b)
                     ELSE (ka :> probe.a)
             want == (kb :> probe.b)
         IN  \E ocur \in Orders(DOMAIN cur), owant \in Orders(DOMAIN want) :
                 probe' = [fn |-> "mapStringSliceEqual", a |-> cur, b |-> want,
                           out |-> mapStringSliceEqual(cur, want),
                           diff |-> diffMapStringSlice("headers", cur, want,
                                                       ocur, owant)]
    /\ UNCHANGED applyVars

\* A service declared by url alone: what POST /services stores for the url
\* (CreateOrUpdateService on a remote without the service), then the
\* comparison RunE makes of that stored service with the same declaration.
EvalServiceUrl ==
    /\ probe.fn = "args"
    /\ \E u \in {"http://h", "http://h:80", "http://h:8080", "https://h",
                 "https://h:443", "https://h:8443", "http://h/x",
                 "http://h:80/x", "http://h/"} :
         LET sp  == [Spec0 EXCEPT
                       !.services = <<[Service0 EXCEPT !.name = "s1",
                                                       !.url = u]>>]
             s   == CtxSvc(sp, "svcs", 1)
             cur == RemPostService(Remote0, ServicePayload(s)).svcs[s.name]
         IN  probe' = [fn |-> "serviceUrl", url |-> u, cur |-> cur,
                       curURL |-> reconstructURL(cur),
                       action |-> PlanServiceAction(cur, s),
                       diff |-> ServiceDiff(cur, s)]
    /\ UNCHANGED applyVars

\* A route without a name that refers to service s1: the name derived from
\* the methods a and from the methods b, the Change RunE plans for the route
\* with the methods a, and what printHierPlan prints for that plan.
EvalRouteName ==
    /\ probe.fn = "args"
    /\ LET r  == [Route0 EXCEPT !.service = "s1", !.paths = <<"/p">>,
                                !.methods = probe.a]
           sp == [Spec0 EXCEPT !.routes = <<r>>]
           items == <<Change("Route", RouteName(r), "create", <<>>)>>
       IN  probe' = [fn |-> "defaultRouteName", a |-> probe.a, b |-> probe.b,
                     na |-> defaultRouteName("s1", <<"/p">>, probe.a),
                     nb |-> defaultRouteName("s1", <<"/p">>, probe.b),
                     items |-> items,
                     lines |-> HierLines(items, sp, FALSE)]
    /\ UNCHANGED applyVars

NextCompare ==
    \/ EvalSliceSetEqual
    \/ EvalMethods
    \/ EvalMapStringSliceEqual
    \/ EvalServiceUrl
    \/ EvalRouteName

SpecCompare == InitCompare /\ [][NextCompare]_vars

----------------------------------------------------------------------------
(* Properties                                                              *)

NoMutation(cs) == \A n \in DOMAIN cs : ~Mutating(cs[n])

NoFailedCall(cs) ==
    \A n \in DOMAIN cs : cs[n].res \notin {"err", "err404", "lost"}

\* Whether the remote holds the resource a call names.
InRemote(rem, kind, name) ==
    CASE kind = "Upstream" -> name \in rem.ups
      [] kind = "Target"   -> \E t \in rem.tgs : TargetCallName(t.up, t.target) = name
      [] kind = "Service"  -> name \in DOMAIN rem.svcs
      [] kind = "Route"    -> name \in DOMAIN rem.rts

\* Every resource of a is in b with the same fields.
Preserved(a, b) ==
    /\ a.ups \subseteq b.ups
    /\ a.tgs \subseteq b.tgs
    /\ \A n \in DOMAIN a.svcs : n \in DOMAIN b.svcs /\ b.svcs[n] = a.svcs[n]
    /\ \A n \in DOMAIN a.rts : n \in DOMAIN b.rts /\ b.rts[n] = a.rts[n]

\* The resource names of a are among those of b, kind by kind.
NamesKept(a, b) ==
    /\ a.ups \subseteq b.ups
    /\ {<<t.up, t.target>> : t \in a.tgs} \subseteq {<<t.up, t.target>> : t \in b.tgs}
    /\ DOMAIN a.svcs \subseteq DOMAIN b.svcs
    /\ DOMAIN a.rts \subseteq DOMAIN b.rts

PostsFor(cs, kind, name) ==
    {n \in DOMAIN cs : cs[n].op = "post" /\ cs[n].kind = kind /\ cs[n].name = name}

\* C1: in dry-run mode no create, patch or add-target is issued, and the
\* remote resource set stays what it was when the invocation began, whether
\* the invocation is running, ended with a plan or ended with an error.
C1_DryRunNoMutation ==
    dryRun => (remote = remoteStart /\ NoMutation(calls))

C1_Witness ==
    /\ dryRun /\ pc = "done"
    /\ \E n \in DOMAIN plan : plan[n].action = "create"
    /\ \E n \in DOMAIN plan : plan[n].action = "update"

\* C2: with --overwrite off, no create/patch/add-target names a resource that
\* existed when the invocation began, and every such resource keeps all its
\* fields.
C2_OverrideOffPreserves ==
    ~overwrite =>
      /\ Preserved(remoteStart, remote)
      /\ \A n \in DOMAIN calls :
           Mutating(calls[n])
             => ~InRemote(remoteStart, calls[n].kind, calls[n].name)

C2_Witness ==
    /\ ~overwrite /\ ~dryRun /\ pc = "done"
    /\ \E n \in DOMAIN skips : skips[n].kind = "Route"
    /\ \E n \in DOMAIN skips : skips[n].kind = "Target"

\* C3: no step of any invocation removes a resource name: the upstream
\* names, the target addresses per upstream, the service names and the route
\* names after a step include those before it.
C3_NeverDeletes == [][NamesKept(remote, remote')]_vars

C3_Witness ==
    /\ ~dryRun
    /\ DOMAIN remoteStart.svcs # {}
    /\ Cardinality(DOMAIN remote.svcs) > Cardinality(DOMAIN remoteStart.svcs)
    /\ Cardinality(remote.ups) > Cardinality(remoteStart.ups)

\* C4: in apply mode a resource that RunE's lookup found missing gets at
\* most one create call, and once the invocation has ended without error it
\* got exactly one, which succeeded, whatever --overwrite is.
C4_CreateAlwaysExecutes ==
    ~dryRun =>
      \A n \in DOMAIN calls :
        (calls[n].site = "run" /\ calls[n].res = "absent") =>
          LET posts == PostsFor(calls, calls[n].kind, calls[n].name)
          IN  /\ Cardinality(posts) <= 1
              /\ \A m \in posts : m > n
              /\ pc = "done" =>
                   /\ Cardinality(posts) = 1
                   /\ \A m \in posts : calls[m].res = "ok"

C4_Witness ==
    /\ ~dryRun /\ ~overwrite /\ pc = "done"
    /\ \E n \in DOMAIN calls :
         calls[n].site = "run" /\ calls[n].res = "absent" /\ calls[n].kind = "Route"
    /\ \E n \in DOMAIN calls :
         calls[n].site = "run" /\ calls[n].res = "absent" /\ calls[n].kind = "Target"

\* C5: an apply without --overwrite that follows a successful apply of the
\* same file without --overwrite issues no create, patch or add-target, and
\* finds every resource the first one created.
C5_Idempotent ==
    (prev.ran /\ ~prev.dry /\ prev.err = "" /\ ~overwrite /\ ~dryRun) =>
      /\ NoMutation(calls)
      /\ \A n \in DOMAIN calls :
           (calls[n].site = "run" /\ <<calls[n].kind, calls[n].name>> \in prev.created)
             => calls[n].res # "absent"

C5_Witness ==
    /\ prev.ran /\ ~prev.dry /\ prev.err = "" /\ ~overwrite /\ ~dryRun
    /\ pc = "done"
    /\ \E c \in prev.created : c[1] = "Route"
    /\ \E c \in prev.created : c[1] = "Service"

\* A list the document declares equals the remote one as a set.
DeclSeq(d, c) == Len(d) = 0 \/ sliceSetEqual(c, d)

DeclPtr(d, c) == d = "nil" \/ PtrVal(c) = PtrVal(d)

DeclInt(d, c) == d = 0 \/ c = d

DeclStr(d, c) == d = "" \/ c = d

\* Every declared target is listed under the upstream, with the declared
\* weight when one is declared.
TargetsMatch(rem, up, ts) ==
    \A k \in DOMAIN ts :
      \E t \in rem.tgs :
        t.up = up /\ t.target = ts[k].target /\ DeclInt(ts[k].weight, t.weight)

UpstreamMatches(rem, up, ts) == up \in rem.ups /\ TargetsMatch(rem, up, ts)

\* The declared fields of an upstream-bound service equal the remote ones.
BoundServiceMatches(rem, name, up, protocol, port, path) ==
    /\ name \in DOMAIN rem.svcs
    /\ rem.svcs[name].host = up
    /\ DeclStr(protocol, rem.svcs[name].protocol)
    /\ DeclInt(port, rem.svcs[name].port)
    /\ DeclStr(path, rem.svcs[name].path)

ServiceMatches(rem, d) ==
    /\ d.name \in DOMAIN rem.svcs
    /\ IF d.upstream # ""
       THEN /\ UpstreamMatches(rem, d.upstream, d.targets)
            /\ BoundServiceMatches(rem, d.name, d.upstream, d.protocol, d.port,
                                   d.path)
       ELSE reconstructURL(rem.svcs[d.name]) = d.url
    /\ DeclInt(d.retries, rem.svcs[d.name].retries)
    /\ DeclInt(d.connect_timeout, rem.svcs[d.name].connect_timeout)
    /\ DeclInt(d.read_timeout, rem.svcs[d.name].read_timeout)
    /\ DeclInt(d.write_timeout, rem.svcs[d.name].write_timeout)

\* The declared fields of a route equal the remote ones, and the remote
\* route is attached to the service the document references.
RouteMatches(rem, r) ==
    /\ RouteName(r) \in DOMAIN rem.rts
    /\ LET cur == rem.rts[RouteName(r)]
       IN  /\ DeclSeq(r.hosts, cur.hosts)
           /\ DeclSeq(r.paths, cur.paths)
           /\ DeclSeq(toUpper(r.methods), toUpper(cur.methods))
           /\ DeclSeq(r.protocols, cur.protocols)
           /\ DeclSeq(r.snis, cur.snis)
           /\ DeclSeq(r.tags, cur.tags)
           /\ DeclStr(PathHandlingOf(r), ToLowerStr(cur.path_handling))
           /\ DeclPtr(r.strip_path, cur.strip_path)
           /\ DeclPtr(r.preserve_host, cur.preserve_host)
           /\ DeclPtr(r.request_buffering, cur.request_buffering)
           /\ DeclPtr(r.response_buffering, cur.response_buffering)
           /\ DeclInt(r.regex_priority, cur.regex_priority)
           /\ DeclInt(r.https_redirect_status_code,
                      cur.https_redirect_status_code)
           /\ (DOMAIN r.headers = {} \/ mapStringSliceEqual(cur.headers, r.headers))
           /\ RouteService(r) \in DOMAIN rem.svcs
           /\ cur.service.id = rem.svcs[RouteService(r)].id
    /\ r.service = "" =>
         /\ UpstreamMatches(rem, AutoUpName(r), r.backend.targets)
         /\ BoundServiceMatches(rem, AutoSvcName(r), AutoUpName(r),
                                r.backend.protocol, r.backend.port,
                                r.backend.path)

\* The document declares nothing the remote resource set does not hold.
RoundTrip(sp, rem) ==
    /\ \A k \in DOMAIN sp.upstreams :
         UpstreamMatches(rem, sp.upstreams[k].name, sp.upstreams[k].targets)
    /\ \A k \in DOMAIN sp.services : ServiceMatches(rem, sp.services[k])
    /\ \A k \in DOMAIN sp.routes : RouteMatches(rem, sp.routes[k])

\* C6: a dry-run whose lookups all answered, over a document whose declared
\* fields all equal the remote ones (the remote naming the service of each
\* route), ends with a plan of "none" entries only.
C6_RoundTripNoChange ==
    (/\ dryRun /\ pc = "done"
     /\ echoName
     /\ NoFailedCall(calls)
     /\ RoundTrip(spec, remoteStart))
      => \A n \in DOMAIN plan : plan[n].action = "none"

\* C7: an invocation that ends with a ParseError or a ValidationError has
\* issued no remote call.
C7_InvalidBeforeAnyCall ==
    err \in {"ParseError", "ValidationError"} => calls = <<>>

\* C8: a lookup that fails (not a not-found answer) is the last call of the
\* invocation, which ends with a FetchError, in dry-run as in apply mode.
C8_FailedLookupFatal ==
    \A n \in DOMAIN calls :
      (calls[n].op \in {"get", "list"} /\ calls[n].res = "err")
        => (n = Len(calls) /\ pc = "err" /\ err = "FetchError")

\* C9: an invocation ends without error only if the service of each of its
\* routes exists remotely, or (dry-run) is planned to be created before the
\* route.
C9_MissingServiceFails ==
    pc = "done" =>
      \A k \in DOMAIN spec.routes :
        \/ RouteService(spec.routes[k]) \in DOMAIN remote.svcs
        \/ /\ dryRun
           /\ \E n \in DOMAIN plan :
                /\ plan[n].kind = "Service"
                /\ plan[n].name = RouteService(spec.routes[k])
                /\ plan[n].action = "create"

\* C10: a create, patch or add-target that fails (refused by the remote, or
\* carried out with its answer lost) is the last call of the invocation,
\* which ends with that error; what the calls of the invocation created
\* is still there.
C10_FailFast ==
    /\ \A n \in DOMAIN calls :
         (Mutating(calls[n]) /\ calls[n].res \in {"err", "lost"})
           => (n = Len(calls) /\ pc = "err" /\ err = "TransportError")
    /\ \A n \in DOMAIN calls :
         (calls[n].op = "post" /\ calls[n].res \in {"ok", "lost"})
           => InRemote(remote, calls[n].kind, calls[n].name)

C10_Witness ==
    /\ pc = "err" /\ err = "TransportError"
    /\ Mutating(calls[Len(calls)]) /\ calls[Len(calls)].res = "err"
    /\ \E n \in DOMAIN calls : calls[n].op = "post" /\ calls[n].res = "ok"

\* C11: when an apply without --overwrite is aborted by one failing remote
\* call, running it again without failure ends in the remote resource set
\* that one failure-free run from the original set ends in.
C11_RerunRecovers ==
    ( /\ reference.set /\ reference.ok
      /\ ~overwrite
      /\ prev.ran /\ ~prev.dry /\ prev.err # "" /\ prev.faults = 1
      /\ pc = "done" /\ NoFailedCall(calls) )
    => remote = reference.remote

----------------------------------------------------------------------------
(* What the document asks for, resource by resource                        *)

DesiredServices(sp) ==
    {CtxSvc(sp, "svcs", k) : k \in DOMAIN sp.services}
    \cup {CtxSvc(sp, "routes", k) :
            k \in {j \in DOMAIN sp.routes : sp.routes[j].service = ""}}

\* The items that carry targets: upstreams, services bound to an upstream,
\* shorthand routes.
TargetItems(sp) ==
    {<<"ups", k>> : k \in DOMAIN sp.upstreams}
    \cup {<<"svcs", k>> : k \in {j \in DOMAIN sp.services :
                                   sp.services[j].upstream # ""}}
    \cup {<<"routes", k>> : k \in {j \in DOMAIN sp.routes :
                                     sp.routes[j].service = ""}}

DesiredTargets(sp) ==
    UNION { { [up |-> CtxUpName(sp, i[1], i[2]),
               target |-> CtxTargets(sp, i[1], i[2])[t].target,
               declared |-> CtxTargets(sp, i[1], i[2])[t].weight] :
                t \in DOMAIN CtxTargets(sp, i[1], i[2]) } :
            i \in TargetItems(sp) }

CountOf(S) == Cardinality(S)

MutationsFor(cs, kind, name) ==
    CountOf({n \in DOMAIN cs :
               Mutating(cs[n]) /\ cs[n].kind = kind /\ cs[n].name = name})

PatchesFor(cs, kind, name) ==
    CountOf({n \in DOMAIN cs :
               cs[n].op = "patch" /\ cs[n].kind = kind /\ cs[n].name = name})

SkipsFor(sk, kind, name) ==
    CountOf({n \in DOMAIN sk : sk[n].kind = kind /\ sk[n].name = name})

\* The run resolved the resource once and found it: what it compared the
\* document with is the resource as the run found the remote.
FoundOnce(cs, kind, name) ==
    LET look == {n \in DOMAIN cs : /\ cs[n].site = "run"
                                    /\ cs[n].kind = kind
                                    /\ cs[n].name = name}
    IN  CountOf(look) = 1 /\ \A n \in look : cs[n].res = "ok"

\* Number of groups of a found service that differ: its config, its extras.
ServiceGroups(cur, s) ==
    (IF ServiceChanged(cur, s) THEN 1 ELSE 0)
    + (IF extrasChanged(cur, s) THEN 1 ELSE 0)

\* An existing resource that differs gets `want` skip warnings and no
\* mutating call without --overwrite, `want` mutating calls and no warning
\* with it.
Gated(kind, name, want) ==
    IF overwrite
    THEN MutationsFor(calls, kind, name) = want /\ SkipsFor(skips, kind, name) = 0
    ELSE SkipsFor(skips, kind, name) = want /\ MutationsFor(calls, kind, name) = 0

TargetDiffers(rem, d) ==
    LET list == RemTargets(rem, d.up)
    IN  TargetExists(list, d.target)
        /\ ~TargetSameWeight(list, d.target, NormWeight(d.declared))

RoutesGated ==
    \A k \in DOMAIN spec.routes :
        LET r == spec.routes[k]
            name == RouteName(r)
        IN  ( /\ FoundOnce(calls, "Route", name)
              /\ RouteChanged(r, DesiredRoute(r), remoteStart.rts[name]) )
            => ( /\ Gated("Route", name, 1)
                 /\ overwrite => PatchesFor(calls, "Route", name) = 1 )

TargetsGated ==
    \A d \in DesiredTargets(spec) :
        ( /\ FoundOnce(calls, "Target", TargetCallName(d.up, d.target))
          /\ TargetDiffers(remoteStart, d) )
        => Gated("Target", TargetCallName(d.up, d.target), 1)

\* C12 (as stated): every existing resource that differs gets exactly one
\* skip warning and no mutating call without --overwrite, exactly one
\* mutating call with it.
C12_ExactlyOne ==
    (~dryRun /\ pc = "done") =>
        /\ \A s \in DesiredServices(spec) :
             ( /\ FoundOnce(calls, "Service", s.name)
               /\ ServiceGroups(remoteStart.svcs[s.name], s) > 0 )
             => Gated("Service", s.name, 1)
        /\ RoutesGated
        /\ TargetsGated

\* C12 (amended): a route and a target that differ get exactly one warning
\* or one mutating call (a PATCH, an add-target); a service gets one per
\* group that differs, its config and its extras, hence one or two.
C12_GatingCounts ==
    (~dryRun /\ pc = "done") =>
        /\ \A s \in DesiredServices(spec) :
             ( /\ FoundOnce(calls, "Service", s.name)
               /\ ServiceGroups(remoteStart.svcs[s.name], s) > 0 )
             => ( /\ Gated("Service", s.name,
                           ServiceGroups(remoteStart.svcs[s.name], s))
                  /\ overwrite =>
                       PatchesFor(calls, "Service", s.name)
                         = ServiceGroups(remoteStart.svcs[s.name], s) )
        /\ RoutesGated
        /\ TargetsGated

C12_Witness ==
    /\ ~dryRun /\ pc = "done" /\ ~overwrite
    /\ \E s \in DesiredServices(spec) :
         /\ FoundOnce(calls, "Service", s.name)
         /\ ServiceGroups(remoteStart.svcs[s.name], s) = 2
         /\ SkipsFor(skips, "Service", s.name) = 2
    /\ \E d \in DesiredTargets(spec) :
         /\ TargetDiffers(remoteStart, d)
         /\ SkipsFor(skips, "Target", TargetCallName(d.up, d.target)) = 1

----------------------------------------------------------------------------
(* Document order                                                          *)

RECURSIVE Flatten(_)
Flatten(ss) == IF ss = <<>> THEN <<>> ELSE Head(ss) \o Flatten(Tail(ss))

HasUpstream(sp, s, k) ==
    \/ s = "ups"
    \/ s = "svcs" /\ sp.services[k].upstream # ""
    \/ s = "routes" /\ sp.routes[k].service = ""

HasService(sp, s, k) ==
    s = "svcs" \/ (s = "routes" /\ sp.routes[k].service = "")

\* The resources of one item of the document, in the order RunE resolves
\* them: upstream, its targets, service, route.
ItemOrder(sp, s, k) ==
    (IF HasUpstream(sp, s, k)
     THEN <<(<<"Upstream", CtxUpName(sp, s, k)>>)>>
          \o [t \in DOMAIN CtxTargets(sp, s, k) |->
                <<"Target", TargetCallName(CtxUpName(sp, s, k),
                                           CtxTargets(sp, s, k)[t].target)>>]
     ELSE <<>>)
    \o (IF HasService(sp, s, k)
        THEN <<(<<"Service", CtxSvc(sp, s, k).name>>)>> ELSE <<>>)
    \o (IF s = "routes"
        THEN <<(<<"Route", RouteName(sp.routes[k])>>)>> ELSE <<>>)

\* The resources of the first nu upstreams, ns services and nr routes.
OrderUpTo(sp, nu, ns, nr) ==
    Flatten([k \in 1..nu |-> ItemOrder(sp, "ups", k)])
    \o Flatten([k \in 1..ns |-> ItemOrder(sp, "svcs", k)])
    \o Flatten([k \in 1..nr |-> ItemOrder(sp, "routes", k)])

ResolveOrder(sp) ==
    OrderUpTo(sp, Len(sp.upstreams), Len(sp.services), Len(sp.routes))

\* The resources the run resolved so far, in order.
Resolved(cs) ==
    LET look == SelectSeq(cs, LAMBDA c : c.site = "run")
    IN  [n \in DOMAIN look |-> <<look[n].kind, look[n].name>>]

IsPrefix(a, b) == Len(a) <= Len(b) /\ a = SubSeq(b, 1, Len(a))

\* C13: a skip does not end the invocation. The run resolves the resources
\* in document order, all of them by the time it ends without error, and
\* when it ends in error the cause is a rejected document or a remote call
\* that did not succeed, never a skip.
C13_SkipNonFatal ==
    /\ IsPrefix(Resolved(calls), ResolveOrder(spec))
    /\ pc = "done" => Resolved(calls) = ResolveOrder(spec)
    /\ (pc = "err" /\ err \notin {"ParseError", "ValidationError"})
         => (calls # <<>> /\ calls[Len(calls)].res # "ok")
    /\ (pc = "err" /\ err = "ValidationError" /\ skips # <<>>)
         => Resolved(calls) # ResolveOrder(spec)

C13_Witness ==
    /\ ~dryRun /\ pc = "done"
    /\ \E n \in DOMAIN skips : skips[n].kind = "Target"
    /\ Len(ResolveOrder(spec)) >= 4
    /\ Len(skips) >= 2
    /\ Resolved(calls)[Len(Resolved(calls))][1] = "Route"

----------------------------------------------------------------------------
(* Convergence                                                             *)

\* C14: after an apply with --overwrite that ended without error, every
\* desired resource exists with its declared fields, so the dry-run that
\* follows plans every resource as unchanged.
C14_Converges ==
    ( /\ prev.ran /\ ~prev.dry /\ prev.err = ""
      /\ overwrite /\ dryRun /\ pc = "done" /\ NoFailedCall(calls) )
    => /\ RoundTrip(spec, remote)
       /\ \A n \in DOMAIN plan : plan[n].action = "none"

----------------------------------------------------------------------------
(* Top-level shapes                                                        *)

\* The shape of a file by the priority of the three forms: a mapping with a
\* non-empty section, a non-empty list, a mapping with a route field.
ShapeOf(r) ==
    IF r.node = "map"
       /\ Len(r.top.upstreams) + Len(r.top.services) + Len(r.top.routes) > 0
    THEN "object"
    ELSE IF r.node = "seq" /\ Len(r.items) > 0 THEN "list"
    ELSE IF r.node = "map"
            /\ \/ r.one.name # "" \/ r.one.service # ""
               \/ r.one.paths # <<>> \/ r.one.hosts # <<>>
               \/ r.one.methods # <<>> \/ r.one.backend # Backend0
    THEN "single"
    ELSE "none"

\* C15: the file is read as a full document when it is a mapping with a
\* non-empty section, else as a list of shorthand routes when it is a
\* non-empty list, else as one route when it is a mapping with a route
\* field; anything else is a parse error before any remote call.
C15_ShapePriority ==
    pc # "start" =>
        CASE ShapeOf(raw) = "object" ->
               err # "ParseError" /\ spec = raw.top
          [] ShapeOf(raw) = "list" ->
               err # "ParseError"
               /\ spec = [Spec0 EXCEPT !.routes = raw.items]
          [] ShapeOf(raw) = "single" ->
               err # "ParseError"
               /\ spec = [Spec0 EXCEPT !.routes = <<raw.one>>]
          [] OTHER ->
               /\ pc = "err" /\ err = "ParseError"
               /\ calls = <<>> /\ remote = remoteStart

C15_Witness ==
    /\ pc = "done"
    /\ raw.node = "map" /\ raw.one.name # "" /\ Len(raw.top.routes) > 0
    /\ spec = raw.top
    /\ calls # <<>>

----------------------------------------------------------------------------
(* Shorthand routes                                                        *)

ShortSvcName(r) ==
    IF r.service_name # "" THEN r.service_name ELSE r.name \o "-service"

ShortUpName(r) ==
    IF r.upstream_name # "" THEN r.upstream_name ELSE r.name \o "-upstream"

ShortProto(r) == IF r.backend.protocol # "" THEN r.backend.protocol ELSE "http"

ShortPort(r) ==
    IF r.backend.port # 0 THEN r.backend.port
    ELSE IF ShortProto(r) = "https" THEN 443 ELSE 80

\* What a route makes the run resolve: a route without a service reference
\* its upstream, one target per backend target, its service, then itself;
\* a route with a service reference only itself.
ShortOrder(r) ==
    IF r.service = ""
    THEN <<(<<"Upstream", ShortUpName(r)>>)>>
         \o [t \in DOMAIN r.backend.targets |->
               <<"Target", ShortUpName(r) \o "/" \o r.backend.targets[t].target>>]
         \o <<(<<"Service", ShortSvcName(r)>>), (<<"Route", r.name>>)>>
    ELSE <<(<<"Route", RouteName(r)>>)>>

\* The service the run created for a shorthand route is bound to the
\* route's upstream with the default protocol and port, and the route it
\* created refers to that service.
ShortCreated(r) ==
    LET svc == ShortSvcName(r)
    IN  /\ ( /\ <<"Service", svc>> \in Created(calls)
             /\ \A j \in DOMAIN spec.services : spec.services[j].name # svc )
           => /\ remote.svcs[svc].host = ShortUpName(r)
              /\ remote.svcs[svc].protocol = ShortProto(r)
              /\ remote.svcs[svc].port = ShortPort(r)
              /\ remote.svcs[svc].path = r.backend.path
        /\ <<"Route", r.name>> \in Created(calls)
           => /\ svc \in DOMAIN remote.svcs
              /\ remote.rts[r.name].service.id = remote.svcs[svc].id

\* C16: a route without a service reference makes the run resolve the
\* service service_name (else name-service), the upstream upstream_name
\* (else name-upstream) and one target per backend target; the service is
\* bound to that upstream with protocol http by default and port 443 for
\* https, else 80; the route refers to that service. A route with a service
\* reference resolves nothing but itself, whatever its backend.
C16_ShorthandDeterminism ==
    pc = "done" =>
        /\ Resolved(calls)
             = OrderUpTo(spec, Len(spec.upstreams), Len(spec.services), 0)
               \o Flatten([k \in DOMAIN spec.routes |-> ShortOrder(spec.routes[k])])
        /\ \A k \in DOMAIN spec.routes :
             (spec.routes[k].service = "" /\ ~dryRun) => ShortCreated(spec.routes[k])

C16_Witness ==
    /\ pc = "done" /\ ~dryRun
    /\ \E k \in DOMAIN spec.routes :
         /\ spec.routes[k].service = ""
         /\ spec.routes[k].service_name # ""
         /\ <<"Service", spec.routes[k].service_name>> \in Created(calls)
         /\ <<"Route", spec.routes[k].name>> \in Created(calls)
         /\ remote.svcs[spec.routes[k].service_name].port = 443

----------------------------------------------------------------------------
(* Routes that cannot be named                                             *)

Nameless(r) == r.service = "" /\ r.name = ""

\* C17: a route with neither a service reference nor a name ends the run
\* with a validation error when the run comes to it; the run resolved the
\* items before it and made no call for an upstream, target, service or
\* route derived from the missing name.
C17_NamelessRouteRejected ==
    \A k \in DOMAIN spec.routes :
        Nameless(spec.routes[k]) =>
            /\ pc # "done"
            /\ sect = "routes" => idx <= k
            /\ (sect = "routes" /\ idx = k) =>
                 /\ pc = "err" /\ err = "ValidationError"
                 /\ Resolved(calls)
                      = OrderUpTo(spec, Len(spec.upstreams),
                                  Len(spec.services), k - 1)
            /\ \A n \in DOMAIN calls :
                 calls[n].name \notin
                   {"", "-upstream", "-service"}
                   \cup {"-upstream/" \o spec.routes[k].backend.targets[t].target :
                           t \in DOMAIN spec.routes[k].backend.targets}

C17_Witness ==
    /\ pc = "err" /\ err = "ValidationError" /\ ~dryRun
    /\ sect = "routes" /\ Nameless(spec.routes[idx])
    /\ calls # <<>>

----------------------------------------------------------------------------
(* Target weights                                                          *)

\* The weight RunE is about to compare or send for the target it is at.
WeightInUse == NormWeight(CtxTargets(spec, sect, idx)[tix].weight)

\* C18: every target weight the run compares or sends is positive, and a
\* declared weight of zero (or none) is replaced by 100, for the targets of
\* upstreams, of services and of route backends alike.
C18_WeightsPositive ==
    /\ pc \in {"tg_list", "tg_ens_list", "tg_post"} =>
         /\ WeightInUse > 0
         /\ CtxTargets(spec, sect, idx)[tix].weight = 0 => WeightInUse = 100
    /\ \A t \in remote.tgs \ remoteStart.tgs : t.weight > 0

----------------------------------------------------------------------------
(* Fields the document leaves out                                          *)

\* A field the route declares differs from the remote route.
DeclaredRouteDiff(r, cur) ==
    LET d == DesiredRoute(r)
    IN  \/ (Len(r.hosts) > 0 /\ ~sliceSetEqual(cur.hosts, d.hosts))
        \/ (Len(r.paths) > 0 /\ ~sliceSetEqual(cur.paths, d.paths))
        \/ (Len(r.methods) > 0 /\ ~sliceSetEqual(toUpper(cur.methods), d.methods))
        \/ (Len(r.protocols) > 0 /\ ~sliceSetEqual(cur.protocols, d.protocols))
        \/ (Cardinality(DOMAIN r.headers) > 0
            /\ ~mapStringSliceEqual(cur.headers, d.headers))
        \/ (Len(r.snis) > 0 /\ ~sliceSetEqual(cur.snis, d.snis))
        \/ (Len(r.tags) > 0 /\ ~sliceSetEqual(cur.tags, d.tags))
        \/ (r.strip_path # "nil" /\ PtrVal(cur.strip_path) # PtrVal(r.strip_path))
        \/ (r.preserve_host # "nil"
            /\ PtrVal(cur.preserve_host) # PtrVal(r.preserve_host))
        \/ (PathHandlingOf(r) # ""
            /\ ToLowerStr(cur.path_handling) # PathHandlingOf(r))
        \/ (r.regex_priority # 0 /\ cur.regex_priority # r.regex_priority)
        \/ (r.https_redirect_status_code # 0
            /\ cur.https_redirect_status_code # r.https_redirect_status_code)
        \/ (r.request_buffering # "nil"
            /\ PtrVal(cur.request_buffering) # PtrVal(r.request_buffering))
        \/ (r.response_buffering # "nil"
            /\ PtrVal(cur.response_buffering) # PtrVal(r.response_buffering))
        \/ (RouteService(r) # "" /\ cur.service.name # RouteService(r))

\* C19: a route that exists is planned as update only because of a field
\* the document declares; a field it leaves out (hosts, paths, methods,
\* protocols, headers, snis, tags, strip_path, preserve_host,
\* path_handling, regex_priority, https_redirect_status_code, the
\* buffering flags) never contributes.
C19_UndeclaredRouteFieldsIgnored ==
    dryRun =>
        \A n \in DOMAIN plan :
            (plan[n].kind = "Route" /\ plan[n].action = "update") =>
                \E k \in DOMAIN spec.routes :
                    /\ RouteName(spec.routes[k]) = plan[n].name
                    /\ DeclaredRouteDiff(spec.routes[k], remote.rts[plan[n].name])

\* A field the service declares differs from the remote service.
DeclaredServiceDiff(d, cur) ==
    \/ (d.upstream # "" /\ cur.host # d.upstream)
    \/ (d.upstream = "" /\ d.url # "" /\ reconstructURL(cur) # d.url)
    \/ (d.upstream # "" /\ d.protocol # "" /\ cur.protocol # d.protocol)
    \/ (d.upstream # "" /\ d.port # 0 /\ cur.port # d.port)
    \/ (d.upstream # "" /\ d.path # "" /\ cur.path # d.path)
    \/ (d.retries # 0 /\ cur.retries # d.retries)
    \/ (d.connect_timeout # 0 /\ cur.connect_timeout # d.connect_timeout)
    \/ (d.read_timeout # 0 /\ cur.read_timeout # d.read_timeout)
    \/ (d.write_timeout # 0 /\ cur.write_timeout # d.write_timeout)

\* The plan entries of the services section.
ServiceEntries ==
    { n \in DOMAIN plan :
        /\ plan[n].kind = "Service"
        /\ n > Len(OrderUpTo(spec, Len(spec.upstreams), 0, 0))
        /\ n <= Len(OrderUpTo(spec, Len(spec.upstreams), Len(spec.services), 0)) }

\* C20: a service that exists is planned as update only because of a field
\* the document sets to a non-zero, non-empty value; protocol, port, path,
\* retries and the timeouts it leaves out never make it an update.
C20_UndeclaredServiceFieldsIgnored ==
    dryRun =>
        \A n \in ServiceEntries :
            plan[n].action = "update" =>
                \E k \in DOMAIN spec.services :
                    /\ spec.services[k].name = plan[n].name
                    /\ DeclaredServiceDiff(spec.services[k],
                                           remote.svcs[plan[n].name])

----------------------------------------------------------------------------
(* Comparison of collections                                               *)

\* C21: sliceSetEqual(a, b) holds exactly when a and b hold the same set of
\* elements, whatever the order and whatever is duplicated.
C21_SliceSetEqualIsSetEquality ==
    probe.fn = "sliceSetEqual" =>
        (probe.out <=> Range(probe.a) = Range(probe.b))

UpperSet(xs) == {ToUpperStr(x) : x \in Range(xs)}

NoRepeat(xs) == Len(xs) = Cardinality(Range(xs))

\* C22: for a route that exists, the methods diff lists as additions
\* exactly the upper-cased declared methods the remote lacks and as
\* removals exactly the remote methods the upper-cased declared ones lack,
\* whatever the case and order the document writes them in; when the two
\* sets differ the route counts as changed.
C22_MethodsDiff ==
    probe.fn = "methods" =>
        /\ Range(probe.out.add) = UpperSet(probe.b) \ Range(probe.a)
        /\ Range(probe.out.del) = Range(probe.a) \ UpperSet(probe.b)
        /\ NoRepeat(probe.out.add) /\ NoRepeat(probe.out.del)
        /\ UpperSet(probe.b) # Range(probe.a) => probe.changed

C22_Witness ==
    /\ probe.fn = "methods"
    /\ probe.a = <<"GET">> /\ probe.b = <<"post", "get">>
    /\ probe.changed
    /\ probe.out.add = <<"POST">> /\ probe.out.del = <<>>

\* C23: mapStringSliceEqual(a, b) holds exactly when a and b have the same
\* keys and, for every key, the same set of values.
C23_MapEqualIsKeywiseSetEquality ==
    probe.fn = "mapStringSliceEqual" =>
        (probe.out <=>
           /\ DOMAIN probe.a = DOMAIN probe.b
           /\ \A k \in DOMAIN probe.a : Range(probe.a[k]) = Range(probe.b[k]))

----------------------------------------------------------------------------
(* Plan entries of targets                                                 *)

\* Classification of a target by address: absent is create, present with
\* the declared weight (or with none declared) is none, present with another
\* weight is update.
TargetActionByAddress(rem, d) ==
    LET list == RemTargets(rem, d.up)
    IN  IF ~\E t \in list : t.target = d.target THEN "create"
        ELSE IF d.declared = 0
                \/ \E t \in list : t.target = d.target /\ t.weight = d.declared
             THEN "none"
        ELSE "update"

\* C24: the plan records, for each desired target whose upstream could be
\* listed, create when its address is not among the remote targets, none
\* when it is there with the same (or no declared) weight, update when it
\* is there with another weight.
C24_TargetPlanAction ==
    dryRun =>
        \A n \in DOMAIN plan :
            (plan[n].kind = "Target" /\ calls[n].res \in {"ok", "absent"}) =>
                \A d \in DesiredTargets(spec) :
                    TargetCallName(d.up, d.target) = plan[n].name
                    => plan[n].action = TargetActionByAddress(remote, d)

----------------------------------------------------------------------------
(* Order of the plan                                                       *)

PlanKeys == [n \in DOMAIN plan |-> <<plan[n].kind, plan[n].name>>]

\* Positions of the changes of a resource in the plan.
PlanAt(kind, name) ==
    {n \in DOMAIN plan : plan[n].kind = kind /\ plan[n].name = name}

Before(A, B) == \A a \in A : \A b \in B : a < b

\* C25 (as stated): in a plan, the changes of an upstream and of all its
\* targets come before the change of any service bound to that upstream,
\* and the change of a service before that of any route referring to it.
C25_DependencyOrder ==
    (dryRun /\ pc = "done") =>
        /\ \A s \in DesiredServices(spec) :
             s.mode = "upstream" =>
               /\ Before(PlanAt("Upstream", s.upstream), PlanAt("Service", s.name))
               /\ \A d \in DesiredTargets(spec) :
                    d.up = s.upstream =>
                      Before(PlanAt("Target", TargetCallName(d.up, d.target)),
                             PlanAt("Service", s.name))
        /\ \A k \in DOMAIN spec.routes :
             Before(PlanAt("Service", RouteService(spec.routes[k])),
                    PlanAt("Route", RouteName(spec.routes[k])))

\* C25 (amended): the plan lists the changes item by item in document
\* order (upstreams, services, routes, each in list order) and, within an
\* item, the upstream, its targets as the item declares them, the service,
\* the route: a service bound to an upstream has a change of that upstream
\* and of the targets it declares itself before it, a shorthand route the
\* change of its service.
C25_ItemOrder ==
    dryRun =>
        /\ IsPrefix(PlanKeys, ResolveOrder(spec))
        /\ pc = "done" =>
             /\ PlanKeys = ResolveOrder(spec)
             /\ \A s \in DesiredServices(spec) :
                  s.mode = "upstream" =>
                    \E n \in PlanAt("Service", s.name) :
                        \E m \in PlanAt("Upstream", s.upstream) : m < n
             /\ \A n \in DOMAIN plan :
                  /\ plan[n].kind = "Target" =>
                       \E m \in 1..(n - 1) : plan[m].kind = "Upstream"
                  /\ \A k \in DOMAIN spec.routes :
                       (plan[n].kind = "Route"
                        /\ plan[n].name = RouteName(spec.routes[k])
                        /\ spec.routes[k].service = "") =>
                         plan[n - 1].kind = "Service"
                         /\ plan[n - 1].name = ShortSvcName(spec.routes[k])

C25_Witness ==
    /\ dryRun /\ pc = "done"
    /\ Len(plan) = 5
    /\ plan[1].kind = "Upstream" /\ plan[2].kind = "Service"
    /\ plan[3].kind = "Upstream" /\ plan[4].kind = "Target"
    /\ plan[5].kind = "Service"

\* C26: a finished plan holds exactly one change for each resource, kind
\* and name, of the expanded document, also for an upstream that is listed
\* under upstreams and referred to by a service.
C26_OneChangePerResource ==
    (dryRun /\ pc = "done") =>
        \A n \in DOMAIN ResolveOrder(spec) :
            Cardinality(PlanAt(ResolveOrder(spec)[n][1],
                               ResolveOrder(spec)[n][2])) = 1

----------------------------------------------------------------------------
(* Calls for unchanged resources                                           *)

\* C27: an upstream that its lookup finds present has no field to differ
\* and is unchanged; after that lookup no further call, get or post, names
\* it before the run turns to the next resource, with --overwrite as
\* without.
C27_NoCallAfterNoChange ==
    \A n \in DOMAIN calls :
        (calls[n].kind = "Upstream" /\ calls[n].site = "run"
         /\ calls[n].res = "ok" /\ n < Len(calls)) =>
            ~(calls[n + 1].kind = "Upstream"
              /\ calls[n + 1].name = calls[n].name
              /\ calls[n + 1].site = "client")

----------------------------------------------------------------------------
(* The printed plan                                                        *)

\* C28: what a dry-run prints with --compact differs from what it prints
\* without only in the lines: the plan handed to the printer is the plan
\* computed, the summary is the same with and without --compact, and each
\* count of it is the number of changes of the plan of that kind and
\* action.
C28_CompactIsPresentational ==
    probe.fn = "printHierPlan" =>
        /\ probe.items = plan
        /\ probe.out.summary
             = printHierPlan(plan, spec, ~probe.out.compact).summary
        /\ \A kind \in {"Upstream", "Service", "Route", "Target"} :
             \A action \in {"create", "update", "none"} :
                 probe.out.summary[kind][action]
                   = Cardinality({n \in DOMAIN plan :
                         plan[n].kind = kind /\ plan[n].action = action})

C28_Witness ==
    /\ probe.fn = "printHierPlan"
    /\ probe.out.compact
    /\ \E n \in DOMAIN plan : plan[n].action = "none"
    /\ \E n \in DOMAIN plan : plan[n].action = "update"
    /\ Len(probe.out.lines) < Len(plan)
    /\ Len(probe.out.lines) > 0

----------------------------------------------------------------------------
(* The single-resource commands: `route sync`, `service sync`,             *)
(* `upstream sync` and `target add`                                        *)

\* An invocation of one of the commands on some remote resource set; probe
\* holds the command and its flags, dryRun the --dry-run flag, which only
\* `route sync` and `service sync` have.
InitSync ==
    /\ raw = Raw("empty", Spec0, Route0, <<>>)
    /\ dryRun \in BOOLEAN
    /\ overwrite = FALSE
    /\ echoName \in BOOLEAN
    /\ remote \in Remotes(echoName)
    /\ remoteInit = remote
    /\ remoteStart = remote
    /\ spec = Spec0
    /\ sect = "none" /\ idx = 0 /\ tix = 0
    /\ pc = "none"
    /\ todo = <<>>
    /\ svcid = ""
    /\ plan = <<>>
    /\ calls = <<>>
    /\ skips = <<>>
    /\ err = ""
    /\ run = 1
    /\ faults = 0
    /\ prev = NoPrev
    /\ reference = NoReference
    /\ probe \in
         {[fn |-> "route sync", diff |-> d, service |-> s, name |-> n,
           paths |-> <<"/p">>, methods |-> <<"get">>] :
             d \in BOOLEAN, s \in {"s1", ""}, n \in {"r1", ""}}
         \cup
         {[fn |-> "service sync", diff |-> d, auto |-> a, name |-> "s1",
           url |-> u, upstream |-> up, weight |-> 100] :
             d \in BOOLEAN, a \in BOOLEAN, u \in {"http://h", "http://h:8080/x"},
             up \in {"", "u1"}}
         \cup
         {[fn |-> "upstream sync", name |-> n] : n \in {"u1", "u2", ""}}
         \cup
         {[fn |-> "target add", upstream |-> up, target |-> t, weight |-> w] :
             up \in {"u1", "u2", ""}, t \in {"a:80", "b:80", ""},
             w \in {0, 7, 100}}
    /\ probe.fn \in {"upstream sync", "target add"} => ~dryRun

\* routeSyncCmd.RunE up to the call of CreateOrUpdateRoute, whose requests
\* are the steps RtCouSvc, RtCouGet, RtPost and RtPatch.
RouteSync ==
    /\ pc = "none"
    /\ probe.fn = "route sync"
    /\ LET r == [Route0 EXCEPT !.name = probe.name, !.service = probe.service,
                               !.paths = probe.paths,
                               !.methods = probe.methods,
                               !.strip_path = "true"]
           name == DesiredRoute(r).name
       IN  IF probe.service = "" \/ Len(probe.paths) = 0
           THEN /\ Step(Failed("routes", 1, 0, "ValidationError"), <<>>)
                /\ UNCHANGED <<spec, calls, faults>>
           ELSE /\ spec' = [Spec0 EXCEPT !.routes = <<r>>]
                /\ \E fault \in FaultSet :
                     LET res == IF fault # "none" THEN "err"
                                ELSE IF name \in DOMAIN remote.rts THEN "ok"
                                ELSE "absent"
                     IN  /\ calls' = Append(calls,
                                       Call("get", "Route", name, res, "run"))
                         /\ faults' = faults + (IF fault # "none" THEN 1 ELSE 0)
                         /\ IF LookupFatal(res)
                            THEN Step(Failed("routes", 1, 0, "FetchError"), <<>>)
                            ELSE IF probe.diff /\ dryRun THEN Step(Finished, <<>>)
                            ELSE Step(At("routes", 1, 0, "rt_cou_svc"), <<>>)
    /\ UNCHANGED <<inputs, dryRun, remote, svcid, plan, skips>>

\* serviceSyncCmd.RunE up to its client calls: with --auto-upstream
\* CreateOrUpdateUpstream, EnsureTarget and CreateOrUpdateServiceViaUpstream
\* (steps UpCouGet, UpPost, TgEnsList, TgPost, SvcCouGet, SvcPost, SvcPatch),
\* else CreateOrUpdateService.
ServiceSync ==
    /\ pc = "none"
    /\ probe.fn = "service sync"
    /\ LET u == ParseURL(probe.url)
           port == IF u.port = 0
                   THEN (IF u.protocol = "https" THEN 443 ELSE 80) ELSE u.port
           upName == IF probe.upstream = "" THEN probe.name \o "-upstream"
                     ELSE probe.upstream
           target == u.host \o ":" \o ToString(port)
           weight == IF probe.weight <= 0 THEN 100 ELSE probe.weight
           s == IF probe.auto
                THEN [Service0 EXCEPT !.name = probe.name, !.upstream = upName,
                                      !.protocol = u.protocol, !.port = port,
                                      !.path = u.path,
                                      !.targets = <<[target |-> target,
                                                     weight |-> weight]>>]
                ELSE [Service0 EXCEPT !.name = probe.name, !.url = probe.url]
       IN  IF probe.name = "" \/ probe.url = ""
           THEN /\ Step(Failed("svcs", 1, 1, "ValidationError"), <<>>)
                /\ UNCHANGED <<spec, calls, faults>>
           ELSE /\ spec' = [Spec0 EXCEPT !.services = <<s>>]
                /\ \E fault \in FaultSet :
                     LET res == IF fault # "none" THEN "err"
                                ELSE IF probe.name \in DOMAIN remote.svcs
                                THEN "ok" ELSE "absent"
                     IN  /\ calls' = Append(calls, Call("get", "Service",
                                                        probe.name, res, "run"))
                         /\ faults' = faults + (IF fault # "none" THEN 1 ELSE 0)
                         /\ IF LookupFatal(res)
                            THEN Step(Failed("svcs", 1, 1, "FetchError"), <<>>)
                            ELSE IF probe.diff /\ dryRun THEN Step(Finished, <<>>)
                            ELSE IF probe.auto
                            THEN Step(At("svcs", 1, 1, "up_cou_get"),
                                      <<"tg_ens_list", "svc_cou_get">>)
                            ELSE Step(At("svcs", 1, 1, "svc_cou_get"), <<>>)
    /\ UNCHANGED <<inputs, dryRun, remote, svcid, plan, skips>>

\* upstreamSyncCmd.RunE up to its call of CreateOrUpdateUpstream, whose
\* requests are the steps UpCouGet and UpPost.
UpstreamSync ==
    /\ pc = "none"
    /\ probe.fn = "upstream sync"
    /\ IF probe.name = ""
       THEN /\ Step(Failed("ups", 1, 0, "ValidationError"), <<>>)
            /\ spec' = spec
       ELSE /\ spec' = [Spec0 EXCEPT !.upstreams =
                           <<[Upstream0 EXCEPT !.name = probe.name]>>]
            /\ Step(At("ups", 1, 0, "up_cou_get"), <<>>)
    /\ UNCHANGED <<inputs, dryRun, remote, svcid, plan, calls, skips, faults>>

\* targetAddCmd.RunE up to its call of AddTarget, the step TgPost: no
\* lookup of the upstream or of its targets comes first, and a weight of 0
\* stands for 100.
TargetAdd ==
    /\ pc = "none"
    /\ probe.fn = "target add"
    /\ IF probe.upstream = "" \/ probe.target = ""
       THEN /\ Step(Failed("ups", 1, 1, "ValidationError"), <<>>)
            /\ spec' = spec
       ELSE /\ spec' = [Spec0 EXCEPT !.upstreams =
                           <<[name |-> probe.upstream,
                              targets |-> <<[target |-> probe.target,
                                             weight |-> IF probe.weight = 0
                                                        THEN 100
                                                        ELSE probe.weight]>>]>>]
            /\ Step(At("ups", 1, 1, "tg_post"), <<>>)
    /\ UNCHANGED <<inputs, dryRun, remote, svcid, plan, calls, skips, faults>>

NextSync ==
    \/ RouteSync \/ ServiceSync \/ UpstreamSync \/ TargetAdd
    \/ UpCouGet \/ UpPost
    \/ TgEnsList \/ TgPost
    \/ SvcCouGet \/ SvcPost \/ SvcPatch
    \/ RtCouSvc \/ RtCouGet \/ RtPost \/ RtPatch

SpecSync == InitSync /\ [][NextSync]_vars

\* C29: with --dry-run, `route sync` and `service sync` send nothing that
\* changes the remote, with --diff as without: no create, patch or
\* add-target call is made and the remote stays as it was.
C29_SyncDryRunReadOnly ==
    (dryRun /\ probe.fn \in {"route sync", "service sync"}) =>
        /\ \A n \in DOMAIN calls : ~Mutating(calls[n])
        /\ remote = remoteInit

----------------------------------------------------------------------------
(* `export`, and a dry-run of `apply` on what it wrote                     *)

\* exportCmd.RunE: the document written for what its list requests read
\* (rem: the upstreams, the targets of each in the order of the answer to
\* its ListTargets, the services and the routes, each as its own request
\* answered it), in the
\* full form (upstreams, services, routes, each sorted by name) or, with
\* --shorthand, as a list of routes that carry the service's protocol,
\* port, path and the upstream's targets in backend and no service.
Export(rem, shorthand) ==
    LET sorted(S) == SortStrings(SetToSeq(S))
        targets(up) ==
            IF up \in DOMAIN rem.tgs
            THEN [k \in DOMAIN rem.tgs[up] |->
                     Target(rem.tgs[up][k].target, rem.tgs[up][k].weight)]
            ELSE <<>>
        upstream(name) == [Upstream0 EXCEPT !.name = name,
                                            !.targets = targets(name)]
        service(name) ==
            LET s  == rem.svcs[name]
                as == [Service0 EXCEPT !.name = s.name,
                                       !.retries = s.retries,
                                       !.connect_timeout = s.connect_timeout,
                                       !.read_timeout = s.read_timeout,
                                       !.write_timeout = s.write_timeout]
            IN  IF s.host # "" /\ s.host \in rem.ups
                THEN [as EXCEPT !.upstream = s.host, !.protocol = s.protocol,
                                !.port = s.port, !.path = s.path]
                ELSE [as EXCEPT !.url = reconstructURL(s)]
        byId(id) == {n \in DOMAIN rem.svcs : rem.svcs[n].id = id}
        route(name) ==
            LET r == rem.rts[name]
            IN  [Route0 EXCEPT
                   !.name = r.name, !.hosts = r.hosts, !.paths = r.paths,
                   !.methods = r.methods,
                   !.path_handling = ToLowerStr(TrimSpace(r.path_handling)),
                   !.protocols = r.protocols,
                   !.regex_priority = r.regex_priority,
                   !.https_redirect_status_code = r.https_redirect_status_code,
                   !.headers = r.headers, !.snis = r.snis, !.tags = r.tags,
                   !.preserve_host = r.preserve_host,
                   !.request_buffering = r.request_buffering,
                   !.response_buffering = r.response_buffering,
                   !.strip_path = r.strip_path,
                   !.service =
                       IF r.service.name # "" THEN r.service.name
                       ELSE IF r.service.id # "" /\ byId(r.service.id) # {}
                       THEN CHOOSE n \in byId(r.service.id) : TRUE
                       ELSE ""]
        short(rt) ==
            LET hasSvc == rt.service \in DOMAIN rem.svcs
                svc == rem.svcs[rt.service]
            IN  [rt EXCEPT
                   !.service = "",
                   !.backend =
                       IF hasSvc /\ svc.host \in rem.ups
                       THEN [protocol |-> svc.protocol, port |-> svc.port,
                             path |-> svc.path, targets |-> targets(svc.host)]
                       ELSE Backend0]
        ups == sorted(rem.ups)
        svs == sorted(DOMAIN rem.svcs)
        rts == sorted(DOMAIN rem.rts)
        specRts == [k \in DOMAIN rts |-> route(rts[k])]
    IN  IF shorthand
        THEN Raw("seq", Spec0, Route0, [k \in DOMAIN specRts |-> short(specRts[k])])
        ELSE Raw("map",
                 [upstreams |-> [k \in DOMAIN ups |-> upstream(ups[k])],
                  services |-> [k \in DOMAIN svs |-> service(svs[k])],
                  routes |-> specRts],
                 Route0, <<>>)

\* `export`, followed by `apply --dry-run` on the document it wrote. probe
\* holds the flag --shorthand, what the requests made so far have read, and
\* the upstreams whose targets are still to be listed.
InitExport ==
    /\ dryRun = TRUE
    /\ overwrite \in BOOLEAN
    /\ echoName \in BOOLEAN
    /\ remote \in Remotes(echoName)
    /\ remoteInit = remote
    /\ remoteStart = remote
    /\ raw = Raw("empty", Spec0, Route0, <<>>)
    /\ spec = Spec0
    /\ sect = "export" /\ idx = 0 /\ tix = 0
    /\ pc = "ex_ups"
    /\ todo = <<>>
    /\ svcid = ""
    /\ plan = <<>>
    /\ calls = <<>>
    /\ skips = <<>>
    /\ err = ""
    /\ run = 1
    /\ faults = 0
    /\ prev = NoPrev
    /\ reference = NoReference
    /\ probe \in {[fn |-> "export", shorthand |-> sh, writes |-> 0,
                   view |-> [ups |-> {}, tgs |-> <<>>, svcs |-> <<>>,
                            rts |-> <<>>],
                   pending |-> <<>>] : sh \in BOOLEAN}

\* exportCmd.RunE, ListUpstreams: the upstreams in the order of the answer;
\* an error ends the command and no document is written.
ExListUpstreams ==
    /\ pc = "ex_ups"
    /\ \E fault \in FaultSet, order \in Orders(remote.ups) :
         LET res == IF fault # "none" THEN "err" ELSE "ok"
         IN  /\ calls' = Append(calls, Call("list", "Upstream", "", res, "export"))
             /\ faults' = faults + (IF fault # "none" THEN 1 ELSE 0)
             /\ IF LookupFatal(res)
                THEN /\ Abort("FetchError")
                     /\ probe' = probe
                ELSE /\ probe' = [probe EXCEPT !.view.ups = remote.ups,
                                               !.pending = order]
                     /\ Goto(IF order = <<>> THEN "ex_svcs" ELSE "ex_tgs", <<>>)
    /\ UNCHANGED <<raw, overwrite, echoName, remoteInit, remoteStart, run, prev,
                   reference, dryRun, remote, spec, svcid, plan, skips>>

\* exportCmd.RunE, ListTargets of the next upstream of the answer: its
\* targets are kept in the order of the answer, which nothing sorts.
ExListTargets ==
    /\ pc = "ex_tgs"
    /\ \E fault \in FaultSet,
          order \in Orders(RemTargets(remote, Head(probe.pending))) :
         LET up  == Head(probe.pending)
             res == ListResult(fault, up \in remote.ups, TRUE)
         IN  /\ calls' = Append(calls, Call("list", "Target", up, res, "export"))
             /\ faults' = faults + (IF fault # "none" THEN 1 ELSE 0)
             /\ IF LookupFatal(res)
                THEN /\ Abort("FetchError")
                     /\ probe' = probe
                ELSE /\ probe' = [probe EXCEPT
                                    !.view.tgs = (up :> order) @@ @,
                                    !.pending = Tail(@)]
                     /\ Goto(IF Len(probe.pending) = 1 THEN "ex_svcs"
                             ELSE "ex_tgs", <<>>)
    /\ UNCHANGED <<raw, overwrite, echoName, remoteInit, remoteStart, run, prev,
                   reference, dryRun, remote, spec, svcid, plan, skips>>

\* exportCmd.RunE, ListServices.
ExListServices ==
    /\ pc = "ex_svcs"
    /\ \E fault \in FaultSet :
         LET res == IF fault # "none" THEN "err" ELSE "ok"
         IN  /\ calls' = Append(calls, Call("list", "Service", "", res, "export"))
             /\ faults' = faults + (IF fault # "none" THEN 1 ELSE 0)
             /\ IF LookupFatal(res)
                THEN /\ Abort("FetchError")
                     /\ probe' = probe
                ELSE /\ probe' = [probe EXCEPT !.view.svcs = remote.svcs]
                     /\ Goto("ex_rts", <<>>)
    /\ UNCHANGED <<raw, overwrite, echoName, remoteInit, remoteStart, run, prev,
                   reference, dryRun, remote, spec, svcid, plan, skips>>

\* exportCmd.RunE, ListRoutes, and the rest of the command: the document is
\* built from what the four kinds of request have read and written out.
\* `apply --dry-run` is then invoked on it.
ExListRoutes ==
    /\ pc = "ex_rts"
    /\ \E fault \in FaultSet :
         LET res == IF fault # "none" THEN "err" ELSE "ok"
         IN  /\ calls' = Append(calls, Call("list", "Route", "", res, "export"))
             /\ faults' = faults + (IF fault # "none" THEN 1 ELSE 0)
             /\ IF LookupFatal(res)
                THEN /\ Abort("FetchError")
                     /\ probe' = probe
                     /\ raw' = raw
                ELSE /\ raw' = Export([probe.view EXCEPT !.rts = remote.rts],
                                      probe.shorthand)
                     /\ probe' = NoProbe
                     /\ Step(At("start", 0, 0, "start"), <<>>)
    /\ UNCHANGED <<overwrite, echoName, remoteInit, remoteStart, run, prev,
                   reference, dryRun, remote, spec, svcid, plan, skips>>

\* Another client of the Admin API creates an upstream, a target, a service
\* or a route between two requests of the export.
ExportWrite ==
    /\ pc \in {"ex_ups", "ex_tgs", "ex_svcs", "ex_rts"}
    /\ probe.writes < MaxWrites
    /\ probe' = [probe EXCEPT !.writes = @ + 1]
    /\ \/ /\ "u2" \notin remote.ups
          /\ remote' = RemPostUpstream(remote, "u2")
       \/ \E up \in remote.ups :
            remote' = RemPostTarget(remote, up, "b:80", 100)
       \/ /\ "s2" \notin DOMAIN remote.svcs
          /\ remote' = RemPostService(remote,
                           [name |-> "s2", url |-> "http://w", protocol |-> "",
                            host |-> "", port |-> 0, path |-> ""])
       \/ LET d == DesiredRoute([Route0 EXCEPT !.name = "r2", !.service = "s1",
                                               !.paths = <<"/w">>])
          IN  /\ "r2" \notin DOMAIN remote.rts
              /\ "s1" \in DOMAIN remote.svcs
              /\ remote' = RemPostRoute(remote,
                               [d EXCEPT !.service.id = remote.svcs["s1"].id],
                               echoName)
    /\ UNCHANGED <<raw, dryRun, overwrite, echoName, remoteInit, remoteStart,
                   spec, sect, idx, tix, pc, todo, svcid, plan, calls, skips,
                   err, run, faults, prev, reference>>

NextExport ==
    \/ ExListUpstreams \/ ExListTargets \/ ExListServices \/ ExListRoutes
    \/ ExportWrite
    \/ Start
    \/ UpGet \/ TgList \/ SvcGet \/ RtGet
    \/ Render

SpecExport == InitExport /\ [][NextExport]_vars

\* C30: a dry-run of apply on the document that export wrote, in the full
\* form or with --shorthand, against the remote as the export found it (no
\* other client wrote, no call failed), ends without error and plans no
\* create and no update: every change is NoChange.
C30_ExportRoundTrip ==
    (sect # "export" /\ remote = remoteInit /\ NoFailedCall(calls)) =>
        /\ pc # "err"
        /\ \A n \in DOMAIN plan : plan[n].action = "none"

----------------------------------------------------------------------------
(* An apply next to another client of the Admin API                        *)

\* Another client creates a resource the document names, between two
\* remote calls of the run: an upstream, a service (pointing elsewhere), or
\* a route of a service that exists.
ExternalWrite ==
    /\ pc \notin {"start", "done", "err", "none"}
    /\ probe.fn = "writer" /\ probe.writes < MaxWrites
    /\ probe' = [probe EXCEPT !.writes = @ + 1]
    /\ \/ \E i \in TargetItems(spec) :
            /\ CtxUpName(spec, i[1], i[2]) \notin remote.ups
            /\ remote' = RemPostUpstream(remote, CtxUpName(spec, i[1], i[2]))
       \/ \E s \in DesiredServices(spec) :
            /\ s.name \notin DOMAIN remote.svcs
            /\ remote' = RemPostService(remote,
                             [name |-> s.name, url |-> "http://w",
                              protocol |-> "", host |-> "", port |-> 0,
                              path |-> ""])
       \/ \E k \in DOMAIN spec.routes :
            LET d == DesiredRoute(spec.routes[k])
            IN  /\ d.name \notin DOMAIN remote.rts
                /\ d.service.name \in DOMAIN remote.svcs
                /\ remote' = RemPostRoute(remote,
                                 [d EXCEPT !.hosts = <<"w.example">>,
                                           !.service.id =
                                               remote.svcs[d.service.name].id],
                                 echoName)
    /\ UNCHANGED <<raw, dryRun, overwrite, echoName, remoteInit, remoteStart,
                   spec, sect, idx, tix, pc, todo, svcid, plan, calls, skips,
                   err, run, faults, prev, reference>>

\* An apply without --dry-run and without --overwrite whose calls all
\* succeed, on a document with an upstream, a service and a route.
InitRace ==
    /\ raw \in {d \in Docs : d.node = "map" /\ Len(d.top.upstreams)
                               + Len(d.top.services) + Len(d.top.routes) > 0}
    /\ dryRun = FALSE
    /\ overwrite = FALSE
    /\ echoName \in BOOLEAN
    /\ remote \in Remotes(echoName)
    /\ remoteInit = remote
    /\ remoteStart = remote
    /\ spec = Spec0
    /\ sect = "start" /\ idx = 0 /\ tix = 0
    /\ pc = "start"
    /\ todo = <<>>
    /\ svcid = ""
    /\ plan = <<>>
    /\ calls = <<>>
    /\ skips = <<>>
    /\ err = ""
    /\ run = 1
    /\ faults = MaxFaults
    /\ prev = NoPrev
    /\ reference = NoReference
    /\ probe = [fn |-> "writer", writes |-> 0]

NextRace ==
    \/ Start
    \/ UpGet \/ UpCouGet \/ UpPost
    \/ TgList \/ TgEnsList \/ TgPost
    \/ SvcGet \/ SvcCouGet \/ SvcPost \/ SvcPatch \/ SvcExtras
    \/ RtGet \/ RtCouSvc \/ RtCouGet \/ RtPost \/ RtPatch
    \/ ExternalWrite

SpecRace == InitRace /\ [][NextRace]_vars

\* C31: next to a client that creates resources during the run, an apply
\* without --overwrite sends no patch: a resource is created only when the
\* last lookup of it found it absent, and what a lookup found is not
\* patched (the parameters of a service the run itself just created are
\* sent as a patch of their own, which is not meant here).
C31_NoPatchWithoutOverwrite ==
    (~overwrite /\ probe.fn = "writer") =>
        \A n \in DOMAIN calls :
            calls[n].op = "patch" =>
                \E m \in 1..(n - 1) :
                    /\ calls[m].op = "post" /\ calls[m].res = "ok"
                    /\ calls[m].kind = calls[n].kind
                    /\ calls[m].name = calls[n].name

----------------------------------------------------------------------------
(* What a create refers to exists                                          *)

\* The call a step adds to the calls of the run, if it adds one.
Issued(op, kind) ==
    /\ Len(calls') = Len(calls) + 1
    /\ calls'[Len(calls')].op = op
    /\ calls'[Len(calls')].kind = kind

\* C32: in an apply, a target is added only to an upstream that exists on
\* the remote, a service bound to an upstream is created only when that
\* upstream exists, and a route is created only when the service it refers
\* to exists; at every step, whether or not the run is aborted later.
C32_CreatesReferToExisting ==
    [][ /\ Issued("post", "Target") =>
              CtxUpName(spec, sect, idx) \in remote.ups
        /\ (Issued("post", "Service")
            /\ CtxSvc(spec, sect, idx).mode = "upstream") =>
              CtxSvc(spec, sect, idx).upstream \in remote.ups
        /\ Issued("post", "Route") =>
              /\ DesiredRoute(spec.routes[idx]).service.name
                   \in DOMAIN remote.svcs
              /\ svcid = remote.svcs[DesiredRoute(spec.routes[idx])
                                       .service.name].id
      ]_vars

C32_Witness ==
    /\ ~dryRun
    /\ \E n \in DOMAIN calls :
         calls[n].op = "post" /\ calls[n].kind = "Target" /\ calls[n].res = "ok"
    /\ \E n \in DOMAIN calls :
         calls[n].op = "post" /\ calls[n].kind = "Service" /\ calls[n].res = "ok"
    /\ \E n \in DOMAIN calls :
         calls[n].op = "post" /\ calls[n].kind = "Route" /\ calls[n].res = "ok"
    /\ \E n \in DOMAIN calls :
         calls[n].op = "post" /\ calls[n].kind = "Upstream"
    /\ pc = "err"

----------------------------------------------------------------------------
(* The diff trace of a planned change                                      *)

\* C33: a resource that exists is planned as an update exactly when its
\* diff trace reports a difference: the comparison of a route's methods
\* sets `changed` if and only if the trace built for them lists an element
\* to remove or an element to add.
C33_ActionAgreesWithTrace ==
    probe.fn = "methods" =>
        (probe.changed <=> (probe.out.del # <<>> \/ probe.out.add # <<>>))

----------------------------------------------------------------------------
(* The dry-run plan against the apply that follows it                       *)

\* What an apply did to a resource: the first call on it that changes the
\* remote (the PATCH of the extra fields that follows the POST of a service
\* belongs to its creation), "none" without such a call. The add-target
\* call is an update when the address was on the remote already, where it
\* overrides the weight.
Applied(kind, name) ==
    LET ms == {m \in DOMAIN calls : /\ Mutating(calls[m])
                                    /\ calls[m].kind = kind
                                    /\ calls[m].name = name}
        first == CHOOSE m \in ms : \A k \in ms : m <= k
    IN  IF ms = {} THEN "none"
        ELSE IF calls[first].op = "patch" THEN "update"
        ELSE IF kind = "Target"
                /\ \E t \in remoteStart.tgs :
                      TargetCallName(t.up, t.target) = name
             THEN "update"
        ELSE "create"

\* An apply with override enabled that ran to its end after a dry-run of the
\* same document, every remote call of both invocations having succeeded.
AfterDryRun ==
    /\ prev.ran /\ prev.dry /\ prev.err = ""
    /\ ~dryRun /\ overwrite
    /\ pc \in {"done", "err"}
    /\ faults = 0

\* C34: an apply with override enabled issues a create call for a resource
\* exactly when the dry-run of the same document on the same remote planned
\* it as create, a patch call (for a target, the add-target call that
\* overrides the weight) exactly when it planned update, no mutating call
\* exactly when it planned none, and the apply does not fail.
C34_PlanPredictsApply ==
    AfterDryRun =>
        /\ err = ""
        /\ \A n \in DOMAIN prev.plan :
             prev.plan[n].action = Applied(prev.plan[n].kind, prev.plan[n].name)
----------------------------------------------------------------------------
(* What an update leaves alone                                             *)

\* The resource was patched in this run.
Patched(kind, name) ==
    \E n \in DOMAIN calls :
        /\ calls[n].op = "patch" /\ calls[n].res = "ok"
        /\ calls[n].kind = kind /\ calls[n].name = name

\* C35: after an apply with override enabled has patched a route or a
\* service that existed, every field of it the document leaves out (for a
\* route hosts, paths, methods and strip_path, for a service bound to an
\* upstream its path) has on the remote the value it had before the run.
C35_UpdateKeepsUndeclared ==
    (~dryRun /\ overwrite /\ pc = "done") =>
        /\ \A k \in DOMAIN spec.routes :
             LET r    == spec.routes[k]
                 name == RouteName(r)
             IN  (name \in DOMAIN remoteStart.rts /\ Patched("Route", name)) =>
                     LET old == remoteStart.rts[name]
                         new == remote.rts[name]
                     IN  /\ r.hosts = <<>> => new.hosts = old.hosts
                         /\ r.paths = <<>> => new.paths = old.paths
                         /\ r.methods = <<>> => new.methods = old.methods
                         /\ r.strip_path = "nil" =>
                                new.strip_path = old.strip_path
        /\ \A k \in DOMAIN spec.services :
             LET s == spec.services[k]
             IN  ( /\ s.name \in DOMAIN remoteStart.svcs
                   /\ Patched("Service", s.name)
                   /\ s.upstream # "" /\ s.path = "" ) =>
                     remote.svcs[s.name].path = remoteStart.svcs[s.name].path

----------------------------------------------------------------------------
(* Planned changes in the printed plan                                     *)

\* A line of the printed plan shows the change: its kind and action, and its
\* name (a target is printed by its address under its upstream).
Shown(c, lines) ==
    \E k \in DOMAIN lines :
        /\ lines[k].kind = c.kind
        /\ lines[k].action = c.action
        /\ IF c.kind = "Target"
           THEN \E d \in DesiredTargets(spec) :
                    /\ TargetCallName(d.up, d.target) = c.name
                    /\ lines[k].name = d.target
           ELSE lines[k].name = c.name

\* C36: every change of the plan whose action is create or update is shown
\* by a line of the printed plan with its kind, name and action, with and
\* without --compact.
C36_EveryChangeIsShown ==
    probe.fn = "printHierPlan" =>
        \A n \in DOMAIN plan :
            plan[n].action \in {"create", "update"} =>
                Shown(plan[n], probe.out.lines)

----------------------------------------------------------------------------
(* A service declared by url, planned again after its creation              *)

\* C37: a service created from a well-formed url u is planned as unchanged
\* when the same declaration is compared with what the remote stored for
\* it, whether or not u spells out the default port of its protocol or ends
\* in a path.
C37_UrlServiceRoundTrip ==
    probe.fn = "serviceUrl" => probe.action = "none"

----------------------------------------------------------------------------
(* Upstreams are created, never changed                                    *)

\* The call is a create or a patch of an upstream.
UpstreamMutation(c) == Mutating(c) /\ c.kind = "Upstream"

\* The call is the lookup CreateOrUpdateUpstream starts with.
UpstreamCouLookup(c) ==
    c.op = "get" /\ c.kind = "Upstream" /\ c.site = "client"

\* C38: no run, with or without --overwrite, patches an upstream; an
\* upstream the dry-run found is planned none, one it did not find create;
\* CreateOrUpdateUpstream follows its lookup with one create call when the
\* upstream is missing and with no mutating call when it is there, and no
\* upstream is created in any other place.
C38_UpstreamNeverUpdated ==
    /\ \A n \in DOMAIN calls :
         calls[n].kind = "Upstream" => calls[n].op # "patch"
    /\ dryRun =>
         \A n \in DOMAIN plan :
             plan[n].kind = "Upstream" =>
                 /\ plan[n].action \in {"create", "none"}
                 /\ calls[n].res = "ok" => plan[n].action = "none"
    /\ \A n \in DOMAIN calls :
         /\ (UpstreamCouLookup(calls[n]) /\ calls[n].res = "ok"
             /\ n < Len(calls)) => ~UpstreamMutation(calls[n + 1])
         /\ (UpstreamCouLookup(calls[n]) /\ calls[n].res = "absent") =>
                /\ n = Len(calls) => pc = "up_post"
                /\ n < Len(calls) =>
                       /\ calls[n + 1].op = "post"
                       /\ calls[n + 1].kind = "Upstream"
                       /\ calls[n + 1].name = calls[n].name
                /\ n + 1 < Len(calls) => ~UpstreamMutation(calls[n + 2])
         /\ UpstreamMutation(calls[n]) =>
                /\ n > 1
                /\ UpstreamCouLookup(calls[n - 1])
                /\ calls[n - 1].res = "absent"
                /\ calls[n - 1].name = calls[n].name

\* An apply with --overwrite met an upstream that exists and one that it had
\* to create.
C38_Witness ==
    /\ ~dryRun /\ overwrite /\ pc = "done"
    /\ \E n \in DOMAIN calls :
         UpstreamCouLookup(calls[n]) /\ calls[n].res = "ok"
    /\ \E n \in DOMAIN calls :
         UpstreamMutation(calls[n]) /\ calls[n].res = "ok"

----------------------------------------------------------------------------
(* Derived route names                                                     *)

\* How often x occurs in xs.
Occurs(x, xs) == Cardinality({k \in DOMAIN xs : xs[k] = x})

\* b lists the methods of a in some order and some letter case.
SameMethods(a, b) ==
    /\ Len(a) = Len(b)
    /\ \A x \in Range(toUpper(a)) \cup Range(toUpper(b)) :
           Occurs(x, toUpper(a)) = Occurs(x, toUpper(b))

\* C39: the name derived for a route without a name is the same for every
\* order and letter case of its methods and ends in ANY when it has none;
\* the name under which the route is planned is the name the printer looks
\* up, so the printed route line carries the action of the route's Change.
C39_DerivedRouteName ==
    probe.fn = "defaultRouteName" =>
        /\ SameMethods(probe.a, probe.b) => probe.na = probe.nb
        /\ probe.a = <<>> => probe.na = "s1-p-ANY"
        /\ probe.items[1].name = probe.na
        /\ probe.lines
             = <<[kind |-> "Route", name |-> probe.na, action |-> "create"]>>

\* Two methods written in another order and another letter case.
C39_Witness ==
    /\ probe.fn = "defaultRouteName"
    /\ Len(probe.a) = 2 /\ probe.a # probe.b
    /\ toUpper(probe.a) # toUpper(probe.b)
    /\ SameMethods(probe.a, probe.b)
    /\ probe.na = "s1-p-GET+POST"

====
